---- MODULE Spec2Model ----
(***************************************************************************)
(* Isolated code-execution subsystem of prith27/lra:                       *)
(*   sandbox/server.py         the Sandbox Manager (registry, routing)     *)
(*   sandbox/kernel_server.py  the in-container Execution Kernel           *)
(*   tools/dynamic_tools.py    registration of dynamic tools               *)
(*   sandbox/middleware.py     bearer authentication of the Manager        *)
(* Source text is modelled character by character, so that the pattern     *)
(* screen is the regular-expression search the code performs.              *)
(***************************************************************************)
EXTENDS Integers, Sequences, FiniteSets, TLC

VARIABLES
    sandboxes,              \* server.py: sandboxes, id -> registry entry
    containers,             \* the container runtime: name -> container
    inflight,               \* the execute call waiting for its kernel
    last,                   \* the most recent handler event (request, response)
    deleted,                \* history: ids whose registry entry delete removed
    serving,                \* FALSE once the lifespan shutdown has run
    dynamic_tool_registry,  \* dynamic_tools.py: _dynamic_tool_registry
    dynamic_files,          \* files under DYNAMIC_TOOLS_DIR: name -> source
    tool_last,              \* the most recent generate_tool call
    kernel_globals,         \* kernel_server.py: names user code left in globals()
    kernel_last,            \* the most recent request the kernel answered
    rate_limit,             \* middleware.py: _RATE_LIMIT, client id -> (count, window_start)
    now,                    \* time.time(), in seconds
    rate_last,              \* the most recent request RateLimitMiddleware saw
    sandbox_id_ref,         \* agents/deps.py: AgentDeps._sandbox_id_ref["id"]
    client,                 \* sandbox_tools.py: the tool call of the agent in progress
    tasks,                  \* db_models.py: the rows of the table tasks, by primary key
    task_last,              \* the most recent call of a task tool
    conversations,          \* db_models.py: the rows of the table conversations, by id
    db_now,                 \* CURRENT_TIMESTAMP of the database, in whole seconds
    conv_last,              \* the most recent call of the conversation store
    threads,                \* the worker threads of the Manager: the handler each runs
    thread_last,            \* the most recent answer a worker thread gave
    calls,                  \* the execute_code calls of one session that are under way
    posted                  \* the requests of the session that the Manager served

vars == <<sandboxes, containers, inflight, last, deleted, serving,
          dynamic_tool_registry, dynamic_files, tool_last,
          kernel_globals, kernel_last, rate_limit, now, rate_last,
          sandbox_id_ref, client, tasks, task_last,
          conversations, db_now, conv_last, threads, thread_last,
          calls, posted>>

sandboxVars == <<sandboxes, containers, inflight, last, deleted, serving>>
toolVars == <<dynamic_tool_registry, dynamic_files, tool_last>>
kernelVars == <<kernel_globals, kernel_last>>
rateVars == <<rate_limit, now, rate_last>>
clientVars == <<sandbox_id_ref, client>>
taskVars == <<tasks, task_last>>
convVars == <<conversations, db_now, conv_last>>
threadVars == <<threads, thread_last>>
callVars == <<calls, posted>>

(***************************************************************************)
(* Bounds and input sets                                                   *)
(***************************************************************************)
MaxStmts == 1

\* values str(uuid.uuid4())[:8] can take
Ids == {"a1b2c3d4", "e5f6a7b8"}

\* host ports the operating system can hand out
Ports == {49152, 49153}

Langs == {"python", "ruby"}

None == "None"

(***************************************************************************)
(* Characters                                                              *)
(***************************************************************************)
UpperLetters == <<"A", "B", "C", "D", "E", "F", "G", "H", "I", "J", "K", "L", "M",
                  "N", "O", "P", "Q", "R", "S", "T", "U", "V", "W", "X", "Y", "Z">>

LowerLetters == <<"a", "b", "c", "d", "e", "f", "g", "h", "i", "j", "k", "l", "m",
                  "n", "o", "p", "q", "r", "s", "t", "u", "v", "w", "x", "y", "z">>

Digits == {"0", "1", "2", "3", "4", "5", "6", "7", "8", "9"}

Range(f) == {f[i] : i \in DOMAIN f}

\* re.IGNORECASE: both sides are compared in lower case
Lower(c) ==
    IF \E i \in 1..26 : UpperLetters[i] = c
    THEN LowerLetters[CHOOSE i \in 1..26 : UpperLetters[i] = c]
    ELSE c

\* \w of the re module
IsWord(c) == c \in Range(UpperLetters) \cup Range(LowerLetters) \cup Digits \cup {"_"}

\* \s of the re module
IsSpace(c) == c \in {" ", "\t", "\n", "\r"}

(***************************************************************************)
(* The pattern screen: DANGEROUS_PATTERNS as sequences of pattern elements *)
(***************************************************************************)
B == <<[t |-> "b", c |-> {}]>>                    \* \b
Ws == <<[t |-> "s*", c |-> {}]>>                  \* \s*
Wp == <<[t |-> "s", c |-> {}], [t |-> "s*", c |-> {}]>>   \* \s+
Lit(cs) == [i \in 1..Len(cs) |-> [t |-> "c", c |-> {cs[i]}]]
OneOf(set) == <<[t |-> "c", c |-> set]>>            \* a character class

DANGEROUS_PATTERNS == <<
    B \o Lit(<<"o", "s", ".", "s", "y", "s", "t", "e", "m">>) \o Ws \o Lit(<<"(">>),
    B \o Lit(<<"s", "u", "b", "p", "r", "o", "c", "e", "s", "s">>) \o Ws \o Lit(<<".">>) \o Ws,
    B \o Lit(<<"e", "x", "e", "c">>) \o Ws \o Lit(<<"(">>),
    B \o Lit(<<"e", "v", "a", "l">>) \o Ws \o Lit(<<"(">>),
    Lit(<<"_", "_", "i", "m", "p", "o", "r", "t", "_", "_">>) \o Ws \o Lit(<<"(">>),
    Lit(<<"o", "p", "e", "n">>) \o Ws \o Lit(<<"(">>) \o Ws \o OneOf({"'", "\""}) \o Lit(<<"/">>),
    Lit(<<"r", "m">>) \o Wp \o Lit(<<"-", "r", "f">>),
    Lit(<<"r", "m">>) \o Wp \o Lit(<<"-", "r">>) \o Wp \o Lit(<<"/">>),
    B \o Lit(<<"i", "m", "p", "o", "r", "t">>) \o Wp \o Lit(<<"o", "s">>) \o B,
    B \o Lit(<<"i", "m", "p", "o", "r", "t">>) \o Wp
      \o Lit(<<"s", "u", "b", "p", "r", "o", "c", "e", "s", "s">>) \o B,
    B \o Lit(<<"i", "m", "p", "o", "r", "t">>) \o Wp \o Lit(<<"s", "y", "s">>) \o B,
    Lit(<<"_", "_", "b", "u", "i", "l", "t", "i", "n", "s", "_", "_">>),
    Lit(<<"b", "r", "e", "a", "k", "p", "o", "i", "n", "t">>) \o Ws \o Lit(<<"(">>),
    Lit(<<"c", "o", "m", "p", "i", "l", "e">>) \o Ws \o Lit(<<"(">>)
>>

\* \b at position j of s: exactly one of s[j-1], s[j] is a word character
AtBoundary(s, j) ==
    LET before == j > 1 /\ IsWord(s[j - 1])
        after == j <= Len(s) /\ IsWord(s[j])
    IN  before # after

\* re.IGNORECASE folds both sides to lower case before comparing
Fold(c, ignorecase) == IF ignorecase THEN Lower(c) ELSE c

\* the elements k.. of pattern pat match s from position j on
RECURSIVE MatchFrom(_, _, _, _, _)
MatchFrom(pat, k, s, j, ic) ==
    IF k > Len(pat) THEN TRUE
    ELSE LET e == pat[k] IN
         CASE e.t = "b" -> AtBoundary(s, j) /\ MatchFrom(pat, k + 1, s, j, ic)
           [] e.t = "c" -> /\ j <= Len(s)
                           /\ Fold(s[j], ic) \in {Fold(x, ic) : x \in e.c}
                           /\ MatchFrom(pat, k + 1, s, j + 1, ic)
           [] e.t = "s" -> /\ j <= Len(s)
                           /\ IsSpace(s[j])
                           /\ MatchFrom(pat, k + 1, s, j + 1, ic)
           [] e.t = "s*" -> \/ MatchFrom(pat, k + 1, s, j, ic)
                            \/ /\ j <= Len(s)
                               /\ IsSpace(s[j])
                               /\ MatchFrom(pat, k, s, j + 1, ic)

\* re.compile("|".join(...), flags).search(s): some pattern matches at some
\* position
RegexSearch(s, ignorecase) ==
    \E p \in DOMAIN DANGEROUS_PATTERNS : \E j \in 1..(Len(s) + 1) :
        MatchFrom(DANGEROUS_PATTERNS[p], 1, s, j, ignorecase)

\* DANGEROUS_REGEX, compiled with re.IGNORECASE
DANGEROUS_REGEX_search(s) == RegexSearch(s, TRUE)

(***************************************************************************)
(* Code strings.  A code string is a sequence of source lines taken from   *)
(* Statement; each line carries its text, what the interpreter does when   *)
(* it runs the line, and the syntax-tree nodes the line parses to.         *)
(***************************************************************************)
Statement == [
    print |-> [
        text |-> <<"p", "r", "i", "n", "t", "(", "2", "+", "2", ")">>,
        out |-> <<"4\n">>, exc |-> "none", msg |-> "",
        nodes |-> {"Expr", "Call", "Name", "Load", "BinOp", "Add", "Constant"},
        names |-> {"print"}, attrs |-> {}],
    raise_value |-> [
        text |-> <<"r", "a", "i", "s", "e", " ", "V", "a", "l", "u", "e", "E", "r",
                   "r", "o", "r", "(", "'", "x", "'", ")">>,
        out |-> <<>>, exc |-> "Exception", msg |-> "x",
        nodes |-> {"Raise", "Call", "Name", "Load", "Constant"},
        names |-> {"ValueError"}, attrs |-> {}],
    raise_exit |-> [
        text |-> <<"r", "a", "i", "s", "e", " ", "S", "y", "s", "t", "e", "m", "E",
                   "x", "i", "t">>,
        out |-> <<>>, exc |-> "BaseException", msg |-> "",
        nodes |-> {"Raise", "Name", "Load"},
        names |-> {"SystemExit"}, attrs |-> {}],
    import_os |-> [
        text |-> <<"i", "m", "p", "o", "r", "t", " ", "o", "s">>,
        out |-> <<>>, exc |-> "none", msg |-> "",
        nodes |-> {"Import", "alias"},
        names |-> {}, attrs |-> {}],
    upper_eval |-> [
        text |-> <<"E", "V", "A", "L", "(", "'", "1", "'", ")">>,
        out |-> <<>>, exc |-> "Exception", msg |-> "name 'EVAL' is not defined",
        nodes |-> {"Expr", "Call", "Name", "Load", "Constant"},
        names |-> {"EVAL"}, attrs |-> {}],
    rm_string |-> [
        text |-> <<"x", " ", "=", " ", "\"", "r", "m", " ", "-", "r", "f", "\"">>,
        out |-> <<>>, exc |-> "none", msg |-> "",
        nodes |-> {"Assign", "Name", "Store", "Constant"},
        names |-> {"x"}, attrs |-> {}]
]

Lines == DOMAIN Statement

\* the code strings of at most MaxStmts lines
Codes == UNION {[1..n -> Lines] : n \in 1..MaxStmts}

\* the characters of a code string: its lines joined by newlines
RECURSIVE SourceText(_)
SourceText(code) ==
    IF Len(code) = 0 THEN <<>>
    ELSE IF Len(code) = 1 THEN Statement[code[1]].text
    ELSE Statement[code[1]].text \o <<"\n">> \o SourceText(Tail(code))

(***************************************************************************)
(* sandbox/kernel_server.py                                                *)
(***************************************************************************)
\* exec(compile(code, "<sandbox>", "exec")) under redirect_stdout: the lines
\* run in order until one raises
RECURSIVE Exec(_, _, _)
Exec(code, i, out) ==
    IF i > Len(code) THEN [stdout |-> out, exc |-> "none", msg |-> ""]
    ELSE LET st == Statement[code[i]] IN
         IF st.exc # "none"
         THEN [stdout |-> out \o st.out, exc |-> st.exc, msg |-> st.msg]
         ELSE Exec(code, i + 1, out \o st.out)

\* run_code: `except Exception` catches Exception and its subclasses only
run_code(code) ==
    LET r == Exec(code, 1, <<>>) IN
    CASE r.exc = "none" ->
           [raised |-> FALSE, stdout |-> r.stdout, stderr |-> <<>>, success |-> TRUE]
      [] r.exc = "Exception" ->
           [raised |-> FALSE, stdout |-> r.stdout, stderr |-> <<r.msg>>, success |-> FALSE]
      [] r.exc = "BaseException" ->
           [raised |-> TRUE, stdout |-> r.stdout, stderr |-> <<>>, success |-> TRUE]

\* POST /execute of the kernel: the JSON body it answers with
execute(code) ==
    LET r == run_code(code) IN
    [type |-> "result", stdout |-> r.stdout, stderr |-> r.stderr, success |-> r.success]

\* the lines of the code strings sent to the kernel as a program of its own
MaxKernelStmts == 2

\* source lines that write, read and drop a name in globals(); exec is called
\* without a namespace argument, so globals() is the dictionary of the
\* kernel's module
GlobalStatement == [
    set_global |-> [
        text |-> <<"g", "l", "o", "b", "a", "l", "s", "(", ")", "[", "'", "k", "'", "]", " ", "=", " ", "1">>,
        out |-> <<>>, reads |-> {}, sets |-> {"k"}, drops |-> {}],
    print_global |-> [
        text |-> <<"p", "r", "i", "n", "t", "(", "k", ")">>,
        out |-> <<"1\n">>, reads |-> {"k"}, sets |-> {}, drops |-> {}],
    pop_global |-> [
        text |-> <<"g", "l", "o", "b", "a", "l", "s", "(", ")", ".", "p", "o", "p", "(", "'", "k", "'", ",", " ", "N", "o", "n", "e", ")">>,
        out |-> <<>>, reads |-> {}, sets |-> {}, drops |-> {"k"}]
]

KernelLines == Lines \cup DOMAIN GlobalStatement

KernelCodes == UNION {[1..n -> KernelLines] : n \in 1..MaxKernelStmts}

\* exec(compile(code, "<sandbox>", "exec")) in a kernel whose globals() hold
\* the names g: a name that is read resolves in globals(), and a line that
\* reads a missing name raises NameError
RECURSIVE ExecIn(_, _, _, _)
ExecIn(code, i, out, g) ==
    IF i > Len(code)
    THEN [stdout |-> out, exc |-> "none", msg |-> "", globals |-> g]
    ELSE IF code[i] \in Lines
    THEN LET st == Statement[code[i]] IN
         IF st.exc # "none"
         THEN [stdout |-> out \o st.out, exc |-> st.exc, msg |-> st.msg, globals |-> g]
         ELSE ExecIn(code, i + 1, out \o st.out, g)
    ELSE LET st == GlobalStatement[code[i]] IN
         IF st.reads \subseteq g
         THEN ExecIn(code, i + 1, out \o st.out, (g \cup st.sets) \ st.drops)
         ELSE [stdout |-> out, exc |-> "Exception",
               msg |-> "name 'k' is not defined", globals |-> g]

\* run_code in a kernel whose globals() hold the names g, and the names they
\* hold afterwards
run_code_in(code, g) ==
    LET r == ExecIn(code, 1, <<>>, g) IN
    CASE r.exc = "none" ->
           [raised |-> FALSE, stdout |-> r.stdout, stderr |-> <<>>, success |-> TRUE,
            globals |-> r.globals]
      [] r.exc = "Exception" ->
           [raised |-> FALSE, stdout |-> r.stdout, stderr |-> <<r.msg>>, success |-> FALSE,
            globals |-> r.globals]
      [] r.exc = "BaseException" ->
           [raised |-> TRUE, stdout |-> r.stdout, stderr |-> <<>>, success |-> TRUE,
            globals |-> r.globals]

\* the JSON body POST /execute answers with in that kernel
execute_in(code, g) ==
    LET r == run_code_in(code, g) IN
    [type |-> "result", stdout |-> r.stdout, stderr |-> r.stderr, success |-> r.success]

\* what the kernel records of a request: the route, the code, the HTTP status
\* and the JSON body of its answer
KernelEvent(op, code, status, json) ==
    [op |-> op, code |-> code, status |-> status, json |-> json]

\* POST /execute on one kernel process
kernel_execute(code) ==
    /\ kernel_globals' = run_code_in(code, kernel_globals).globals
    /\ kernel_last' =
            IF run_code_in(code, kernel_globals).raised
            THEN KernelEvent("execute", code, 500, None)
            ELSE KernelEvent("execute", code, 200, execute_in(code, kernel_globals))
    /\ UNCHANGED <<sandboxVars, toolVars, rateVars, clientVars, taskVars, convVars, threadVars, callVars>>

\* GET /health
health ==
    /\ kernel_last' = KernelEvent("health", <<>>, 200, [status |-> "ok"])
    /\ UNCHANGED <<kernel_globals, sandboxVars, toolVars, rateVars, clientVars, taskVars, convVars, threadVars, callVars>>

(***************************************************************************)
(* sandbox/server.py                                                       *)
(***************************************************************************)
\* the code strings DANGEROUS_REGEX.search finds a match in
Forbidden == {c : c \in {x \in Codes : DANGEROUS_REGEX_search(SourceText(x))}}

\* the screen as it would be without re.IGNORECASE
validate_code_case_sensitive(code) ==
    code \in {c : c \in {x \in Codes : RegexSearch(SourceText(x), FALSE)}}

\* validate_code: TRUE when the code is rejected (HTTP 400)
validate_code(code) == code \in Forbidden

\* data.get(key, default) on the kernel's JSON object
Get(data, key, default) == IF key \in DOMAIN data THEN data[key] ELSE default

\* the envelope as it would be if it reported success without reading it
ExecuteResponse_always_success(data) ==
    [type |-> Get(data, "type", "result"),
     stdout |-> Get(data, "stdout", <<>>),
     stderr |-> Get(data, "stderr", <<>>),
     success |-> TRUE]

\* the body execute_code returns for the kernel's JSON object
ExecuteResponse(data) ==
    [type |-> Get(data, "type", "result"),
     stdout |-> Get(data, "stdout", <<>>),
     stderr |-> Get(data, "stderr", <<>>),
     success |-> Get(data, "success", TRUE)]

\* what a handler event records: the request, the HTTP status of the response
\* (Pending while the call waits for the kernel), the response body, and the
\* kernel's answer the response was built from
Pending == 0

NoAnswer == [status |-> 0, json |-> None]

Event(op, id, code, status, body, kernel) ==
    [op |-> op, id |-> id, code |-> code, status |-> status, body |-> body,
     kernel |-> kernel]

\* what RateLimitMiddleware leaves of a request: the client id, the count it
\* read for the client, the status and the headers of the response the
\* client gets, and whether call_next(request) was reached
RateEvent(client_id, count, status, headers, forwarded) ==
    [client_id |-> client_id, count |-> count, status |-> status,
     headers |-> headers, forwarded |-> forwarded]

NoEntries == [i \in {} |-> None]

\* the agent's tool call: which tool, where it stands, the code it was given,
\* the create and execute requests it has sent, and what it returned
ClientCall(tool, pc, code, creates, executes, result) ==
    [tool |-> tool, pc |-> pc, code |-> code, creates |-> creates,
     executes |-> executes, result |-> result]

ClientIdle == ClientCall(None, "idle", <<>>, 0, 0, <<>>)

\* a call of a task tool: the tool, the session, the task id, the title and
\* the status it was given, and what it returned
TaskCall(op, session_id, task_id, title, status, result) ==
    [op |-> op, session_id |-> session_id, task_id |-> task_id, title |-> title,
     status |-> status, result |-> result]

\* a call of the conversation store: the method, the session, the limit and
\* the list returned
ConvCall(op, session_id, limit, result) ==
    [op |-> op, session_id |-> session_id, limit |-> limit, result |-> result]

\* the worker threads that run `def` handlers side by side
Threads == {"t1", "t2"}

\* a worker thread: the handler it runs, the statement it stands before, the
\* id of the request, and for list_sandboxes the size of the dict when the
\* iterator was made, its keys then, the keys visited and the result so far
Thread(op, pc, id, size, keys, visited, result) ==
    [op |-> op, pc |-> pc, id |-> id, size |-> size, keys |-> keys,
     visited |-> visited, result |-> result]

ThreadIdle == Thread("idle", "idle", None, 0, {}, {}, {})

\* the answer of a handler run by a worker thread; `removed` is whether the
\* call popped the entry, `visited` the entries a list had polled
ThreadEvent(thread, op, id, status, body, removed, visited) ==
    [thread |-> thread, op |-> op, id |-> id, status |-> status, body |-> body,
     removed |-> removed, visited |-> visited]

\* the asyncio tasks in which the agent runs the tool calls of one response
AgentTasks == {"k1", "k2"}

\* an execute_code call under way: where it stands, its code, its local
\* variable sandbox_id and what it returned
Call(pc, code, sandbox_id, result) ==
    [pc |-> pc, code |-> code, sandbox_id |-> sandbox_id, result |-> result]

Absent == [state |-> "absent", port |-> 0]

\* the running containers that publish the host port
Listeners(port) ==
    {c \in Ids : containers[c].state = "running" /\ containers[c].port = port}

\* _find_free_port: bind(("", 0)) returns a port no listener holds
FreePorts == {p \in Ports : Listeners(p) = {}}

\* container.reload(); container.status, "unknown" when the poll raises
PolledStatus(id, reloadOk) ==
    IF reloadOk /\ containers[id].state # "absent"
    THEN containers[id].state
    ELSE "unknown"

\* container.stop(); container.remove() and the point where they may raise
StopAndRemove(c, outcome) ==
    CASE outcome = "ok" -> Absent
      [] outcome = "stop_raises" -> c
      [] outcome = "remove_raises" -> [c EXCEPT !.state = "exited"]

CleanupOutcomes == {"ok", "stop_raises", "remove_raises"}

Init ==
    /\ sandboxes = NoEntries
    /\ containers = [c \in Ids |-> Absent]
    /\ inflight = {}
    /\ last = Event("startup", None, <<>>, 200, None, NoAnswer)
    /\ deleted = {}
    /\ serving = TRUE
    /\ dynamic_tool_registry = NoEntries
    /\ dynamic_files = {}
    /\ tool_last = [name |-> None, args |-> None, code |-> <<>>, doc |-> None, result |-> None]
    /\ kernel_globals = {}
    /\ kernel_last = KernelEvent("startup", <<>>, 200, None)
    /\ rate_limit = NoEntries
    /\ now = 0
    /\ rate_last = RateEvent(None, 0, 0, {}, FALSE)
    /\ sandbox_id_ref = None
    /\ client = ClientIdle
    /\ tasks = NoEntries
    /\ task_last = TaskCall("startup", None, None, None, None, None)
    /\ conversations = <<>>
    /\ db_now = 0
    /\ conv_last = ConvCall("startup", None, 0, <<>>)
    /\ threads = [t \in Threads |-> ThreadIdle]
    /\ thread_last = ThreadEvent(None, "startup", None, 200, None, FALSE, {})
    /\ calls = [k \in AgentTasks |-> Call("idle", <<>>, None, <<>>)]
    /\ posted = {}

\* the language check as it would be if every language were accepted
IsPython_any(lang) == TRUE

\* request.lang != "python" is refused
IsPython(lang) == lang = "python"

\* the registry entry as it would be if the port were left out of it
Entry_without_port(sandbox_id, port) ==
    [id |-> sandbox_id, port |-> 0, status |-> "running"]

\* the registry entry create_sandbox stores; its container is the one named
\* after the id
Entry(sandbox_id, port) ==
    [id |-> sandbox_id, port |-> port, status |-> "running"]

\* the runtime as it would be if it let two containers have one name
NameInUse_never(sandbox_id) == FALSE

\* name=f"sandbox-{sandbox_id}": the runtime refuses a name that a container,
\* running or not, already has
NameInUse(sandbox_id) == containers[sandbox_id].state # "absent"

\* POST /sandboxes; `runOk` is whether the runtime can be reached when
\* client.containers.run is called
create_sandbox(lang, sandbox_id, runOk) ==
    /\ serving
    /\ IF ~IsPython(lang)
       THEN /\ last' = Event("create", None, <<>>, 400, None, NoAnswer)
            /\ UNCHANGED <<sandboxes, containers>>
       ELSE IF FreePorts = {}
       THEN /\ last' = Event("create", None, <<>>, 500, None, NoAnswer)
            /\ UNCHANGED <<sandboxes, containers>>
       ELSE \E port \in FreePorts :
            IF runOk /\ ~NameInUse(sandbox_id)
            THEN /\ containers' = [containers EXCEPT
                        ![sandbox_id] = [state |-> "running", port |-> port]]
                 /\ sandboxes' = [i \in DOMAIN sandboxes \cup {sandbox_id} |->
                        IF i = sandbox_id THEN Entry(sandbox_id, port) ELSE sandboxes[i]]
                 /\ last' = Event("create", sandbox_id, <<>>, 200,
                        [id |-> sandbox_id, status |-> "running", port |-> port], NoAnswer)
            ELSE /\ last' = Event("create", sandbox_id, <<>>, 500,
                        IF runOk THEN "Conflict" ELSE "ConnectionError", NoAnswer)
                 /\ UNCHANGED <<sandboxes, containers>>
    /\ UNCHANGED <<inflight, deleted, serving, toolVars, kernelVars, rateVars, clientVars, taskVars, convVars, threadVars, callVars>>

\* the listing as it would be without the try around container.reload(): one
\* poll that raises fails the whole call
list_sandboxes_aborting(reloadOk) ==
    /\ serving
    /\ last' = IF \A i \in DOMAIN sandboxes : reloadOk[i]
               THEN Event("list", None, <<>>, 200,
                        [i \in DOMAIN sandboxes |->
                            [id |-> i, status |-> PolledStatus(i, TRUE),
                             port |-> sandboxes[i].port]], NoAnswer)
               ELSE Event("list", None, <<>>, 500, None, NoAnswer)
    /\ UNCHANGED <<sandboxes, containers, inflight, deleted, serving, toolVars, kernelVars, rateVars, clientVars, taskVars, convVars, threadVars, callVars>>

\* GET /sandboxes; `reloadOk` is, per entry, whether container.reload() works
list_sandboxes(reloadOk) ==
    /\ serving
    /\ last' = Event("list", None, <<>>, 200,
            [i \in DOMAIN sandboxes |->
                [id |-> i, status |-> PolledStatus(i, reloadOk[i]),
                 port |-> sandboxes[i].port]], NoAnswer)
    /\ UNCHANGED <<sandboxes, containers, inflight, deleted, serving, toolVars, kernelVars, rateVars, clientVars, taskVars, convVars, threadVars, callVars>>

\* GET /sandboxes/{sandbox_id}
get_sandbox(sandbox_id, reloadOk) ==
    /\ serving
    /\ IF sandbox_id \notin DOMAIN sandboxes
       THEN last' = Event("get", sandbox_id, <<>>, 404, None, NoAnswer)
       ELSE last' = Event("get", sandbox_id, <<>>, 200,
                [id |-> sandbox_id, status |-> PolledStatus(sandbox_id, reloadOk),
                 port |-> sandboxes[sandbox_id].port], NoAnswer)
    /\ UNCHANGED <<sandboxes, containers, inflight, deleted, serving, toolVars, kernelVars, rateVars, clientVars, taskVars, convVars, threadVars, callVars>>

\* sandboxes.pop(sandbox_id) as it would be if the entry were only read
pop_keeps_entry(sandbox_id) == sandboxes

\* the registry after sandboxes.pop(sandbox_id)
pop(sandbox_id) == [i \in DOMAIN sandboxes \ {sandbox_id} |-> sandboxes[i]]

\* DELETE /sandboxes/{sandbox_id}: the entry is popped before the container
\* is stopped
delete_sandbox(sandbox_id, outcome) ==
    /\ serving
    /\ IF sandbox_id \notin DOMAIN sandboxes
       THEN /\ last' = Event("delete", sandbox_id, <<>>, 404, None, NoAnswer)
            /\ UNCHANGED <<sandboxes, containers, deleted>>
       ELSE /\ sandboxes' = pop(sandbox_id)
            /\ containers' = [containers EXCEPT
                   ![sandbox_id] = StopAndRemove(containers[sandbox_id], outcome)]
            /\ deleted' = deleted \cup {sandbox_id}
            /\ last' = IF outcome = "ok"
                       THEN Event("delete", sandbox_id, <<>>, 200, "deleted", NoAnswer)
                       ELSE Event("delete", sandbox_id, <<>>, 500, None, NoAnswer)
    /\ UNCHANGED <<inflight, serving, toolVars, kernelVars, rateVars, clientVars, taskVars, convVars, threadVars, callVars>>

\* the checks of execute_code as they would be with the lookup done first
ExecutePrecheck_lookup_first(sandbox_id, code) ==
    IF sandbox_id \notin DOMAIN sandboxes THEN 404
    ELSE IF validate_code(code) THEN 400
    ELSE IF sandboxes[sandbox_id].port = 0 THEN 500
    ELSE Pending

\* the checks execute_code makes before it calls the kernel, in its order:
\* the status it raises, Pending when the call goes on to the kernel
ExecutePrecheck(sandbox_id, code) ==
    IF validate_code(code) THEN 400
    ELSE IF sandbox_id \notin DOMAIN sandboxes THEN 404
    ELSE IF sandboxes[sandbox_id].port = 0 THEN 500
    ELSE Pending

\* POST /sandboxes/{sandbox_id}/execute up to the point where the request has
\* been sent to the kernel; `connects` is whether a connection to the port is
\* established
execute_code_handler(sandbox_id, code, connects) ==
    /\ serving
    /\ LET status == ExecutePrecheck(sandbox_id, code) IN
       IF status # Pending
       THEN /\ last' = Event("execute", sandbox_id, code, status, None, NoAnswer)
            /\ UNCHANGED inflight
       ELSE IF connects /\ Listeners(sandboxes[sandbox_id].port) # {}
       THEN /\ inflight' = inflight \cup
                    {[id |-> sandbox_id, code |-> code,
                      target |-> CHOOSE c \in Listeners(sandboxes[sandbox_id].port) : TRUE]}
            /\ last' = Event("execute", sandbox_id, code, Pending, None, NoAnswer)
       ELSE /\ last' = Event("execute", sandbox_id, code, 503, "ConnectError", NoAnswer)
            /\ UNCHANGED inflight
    /\ UNCHANGED <<sandboxes, containers, deleted, serving, toolVars, kernelVars, rateVars, clientVars, taskVars, convVars, threadVars, callVars>>

\* execute_code taken up while no other call waits
execute_code(sandbox_id, code, connects) ==
    /\ inflight = {}
    /\ execute_code_handler(sandbox_id, code, connects)

\* the kernel answers 200 with its JSON object and execute_code returns
KernelAnswers ==
    \E req \in inflight :
        /\ containers[req.target].state = "running"
        /\ ~run_code(req.code).raised
        /\ LET data == execute(req.code) IN
           last' = Event("execute", req.id, req.code, 200,
                         ExecuteResponse(data), [status |-> 200, json |-> data])
        /\ inflight' = inflight \ {req}
        /\ UNCHANGED <<sandboxes, containers, deleted, serving, toolVars, kernelVars, rateVars, clientVars, taskVars, convVars, threadVars, callVars>>

\* run_code lets the exception through: the kernel's server answers 500,
\* resp.raise_for_status() raises httpx.HTTPStatusError, which execute_code
\* does not catch
KernelFails ==
    \E req \in inflight :
        /\ containers[req.target].state = "running"
        /\ run_code(req.code).raised
        /\ last' = Event("execute", req.id, req.code, 500, None,
                         [status |-> 500, json |-> None])
        /\ inflight' = inflight \ {req}
        /\ UNCHANGED <<sandboxes, containers, deleted, serving, toolVars, kernelVars, rateVars, clientVars, taskVars, convVars, threadVars, callVars>>

\* the call as it would be with no timeout on the client (timeout=None)
Timeout_never == \E req \in inflight : FALSE /\ UNCHANGED vars

\* httpx.AsyncClient(timeout=30.0): no answer within the timeout raises
\* httpx.ReadTimeout, a RequestError
Timeout ==
    \E req \in inflight :
        /\ last' = Event("execute", req.id, req.code, 503, "ReadTimeout", NoAnswer)
        /\ inflight' = inflight \ {req}
        /\ UNCHANGED <<sandboxes, containers, deleted, serving, toolVars, kernelVars, rateVars, clientVars, taskVars, convVars, threadVars, callVars>>

\* the container of the kernel stops while the call waits: the connection
\* breaks, a RequestError
ConnectionLost ==
    \E req \in inflight :
        /\ containers[req.target].state # "running"
        /\ last' = Event("execute", req.id, req.code, 503, "RemoteProtocolError", NoAnswer)
        /\ inflight' = inflight \ {req}
        /\ UNCHANGED <<sandboxes, containers, deleted, serving, toolVars, kernelVars, rateVars, clientVars, taskVars, convVars, threadVars, callVars>>

\* a container ends on its own (its kernel process is killed at mem_limit)
ContainerExits(c) ==
    /\ containers[c].state = "running"
    /\ containers' = [containers EXCEPT ![c].state = "exited"]
    /\ last' = Event("exit", c, <<>>, 0, None, NoAnswer)
    /\ UNCHANGED <<sandboxes, inflight, deleted, serving, toolVars, kernelVars, rateVars, clientVars, taskVars, convVars, threadVars, callVars>>

\* the shutdown as it would be without the try inside the loop: the first
\* stop or remove that raises ends it, before sandboxes.clear()
lifespan_shutdown_aborting(outcome) ==
    /\ serving
    /\ inflight = {}
    /\ IF \A c \in DOMAIN sandboxes : outcome[c] = "ok"
       THEN /\ containers' = [c \in Ids |->
                    IF c \in DOMAIN sandboxes THEN Absent ELSE containers[c]]
            /\ sandboxes' = NoEntries
       ELSE UNCHANGED <<sandboxes, containers>>
    /\ serving' = FALSE
    /\ last' = Event("shutdown", None, <<>>, 0, outcome, NoAnswer)
    /\ UNCHANGED <<inflight, deleted, toolVars, kernelVars, rateVars, clientVars, taskVars, convVars, threadVars, callVars>>

\* lifespan, after the yield: best-effort cleanup, then sandboxes.clear();
\* `outcome` is, per entry, how its stop and remove go, and the event keeps it
lifespan_shutdown(outcome) ==
    /\ serving
    /\ inflight = {}
    /\ containers' = [c \in Ids |->
            IF c \in DOMAIN sandboxes
            THEN StopAndRemove(containers[c], outcome[c])
            ELSE containers[c]]
    /\ sandboxes' = NoEntries
    /\ serving' = FALSE
    /\ last' = Event("shutdown", None, <<>>, 0, outcome, NoAnswer)
    /\ UNCHANGED <<inflight, deleted, toolVars, kernelVars, rateVars, clientVars, taskVars, convVars, threadVars, callVars>>

Next ==
    \/ \E lang \in Langs, sid \in Ids, runOk \in BOOLEAN : create_sandbox(lang, sid, runOk)
    \/ \E reloadOk \in [DOMAIN sandboxes -> BOOLEAN] : list_sandboxes(reloadOk)
    \/ \E sid \in Ids, reloadOk \in BOOLEAN : get_sandbox(sid, reloadOk)
    \/ \E sid \in Ids, outcome \in CleanupOutcomes : delete_sandbox(sid, outcome)
    \/ \E sid \in Ids, code \in Codes, connects \in BOOLEAN : execute_code(sid, code, connects)
    \/ KernelAnswers
    \/ KernelFails
    \/ Timeout
    \/ ConnectionLost
    \/ \E c \in Ids : ContainerExits(c)
    \/ \E outcome \in [DOMAIN sandboxes -> CleanupOutcomes] : lifespan_shutdown(outcome)

Spec == Init /\ [][Next]_vars

\* the event loop fires the client's timeout while a call is waiting
LiveSpec == Spec /\ WF_vars(Timeout)

\* calls that overlap: execute_code is `async def` and waits for the kernel
\* in `await client.post(...)`, which hands the event loop back; the other
\* handlers are `def` and run in worker threads. The calls that keep the
\* event loop while they wait, as they would be with a blocking post
EventLoopHeld_by_waiting == inflight

\* the calls that keep the event loop while they wait for a kernel: none
EventLoopHeld == {}

\* a request is taken up when the event loop is free
LoopFree == EventLoopHeld = {}

\* the codes of overlapping calls: one the kernel answers, one it fails on
OverlapCodes == {<<"print">>, <<"raise_exit">>}

\* execute_code on a sandbox with no call of its own waiting
OverlapExecute(sandbox_id) ==
    /\ \A req \in inflight : req.id # sandbox_id
    /\ \E code \in OverlapCodes, connects \in BOOLEAN :
            execute_code_handler(sandbox_id, code, connects)

\* the waiting call `req` ends, with an answer or an error
Completes(req) ==
    /\ KernelAnswers \/ KernelFails \/ Timeout \/ ConnectionLost
    /\ inflight' = inflight \ {req}

OverlapNext ==
    \/ LoopFree /\ \E lang \in Langs, sid \in Ids, runOk \in BOOLEAN :
                        create_sandbox(lang, sid, runOk)
    \/ LoopFree /\ \E reloadOk \in [DOMAIN sandboxes -> BOOLEAN] : list_sandboxes(reloadOk)
    \/ LoopFree /\ \E sid \in Ids, reloadOk \in BOOLEAN : get_sandbox(sid, reloadOk)
    \/ LoopFree /\ \E sid \in Ids, outcome \in CleanupOutcomes : delete_sandbox(sid, outcome)
    \/ LoopFree /\ \E sid \in Ids : OverlapExecute(sid)
    \/ KernelAnswers
    \/ KernelFails
    \/ Timeout
    \/ ConnectionLost
    \/ \E c \in Ids : ContainerExits(c)

OverlapSpec == Init /\ [][OverlapNext]_vars

\* handlers that run side by side in worker threads, statement by statement.
\* delete_sandbox, the test `sandbox_id not in sandboxes`
delete_check(t, sandbox_id) ==
    /\ serving
    /\ threads[t].op = "idle"
    /\ IF sandbox_id \notin DOMAIN sandboxes
       THEN /\ thread_last' = ThreadEvent(t, "delete", sandbox_id, 404,
                                          "Sandbox not found", FALSE, {})
            /\ UNCHANGED threads
       ELSE /\ threads' = [threads EXCEPT
                   ![t] = Thread("delete", "pop", sandbox_id, 0, {}, {}, {})]
            /\ UNCHANGED thread_last
    /\ UNCHANGED <<sandboxVars, toolVars, kernelVars, rateVars, clientVars, taskVars, convVars, callVars>>

\* delete_sandbox, sandboxes.pop(sandbox_id): KeyError when the entry is gone,
\* which no handler catches
delete_pop(t) ==
    /\ threads[t].op = "delete" /\ threads[t].pc = "pop"
    /\ IF threads[t].id \in DOMAIN sandboxes
       THEN /\ sandboxes' = pop(threads[t].id)
            /\ deleted' = deleted \cup {threads[t].id}
            /\ threads' = [threads EXCEPT ![t].pc = "stop"]
            /\ UNCHANGED thread_last
       ELSE /\ thread_last' = ThreadEvent(t, "delete", threads[t].id, 500,
                                          "KeyError", FALSE, {})
            /\ threads' = [threads EXCEPT ![t] = ThreadIdle]
            /\ UNCHANGED <<sandboxes, deleted>>
    /\ UNCHANGED <<containers, inflight, last, serving, toolVars, kernelVars, rateVars,
                   clientVars, taskVars, convVars, callVars>>

\* delete_sandbox, container.stop(); container.remove() and the answer
delete_stop(t, outcome) ==
    /\ threads[t].op = "delete" /\ threads[t].pc = "stop"
    /\ containers' = [containers EXCEPT
            ![threads[t].id] = StopAndRemove(containers[threads[t].id], outcome)]
    /\ thread_last' = IF outcome = "ok"
                      THEN ThreadEvent(t, "delete", threads[t].id, 200, "deleted", TRUE, {})
                      ELSE ThreadEvent(t, "delete", threads[t].id, 500, outcome, TRUE, {})
    /\ threads' = [threads EXCEPT ![t] = ThreadIdle]
    /\ UNCHANGED <<sandboxes, inflight, last, deleted, serving, toolVars, kernelVars,
                   rateVars, clientVars, taskVars, convVars, callVars>>

\* list_sandboxes, `for sid, info in sandboxes.items()`: the iterator is made
list_iter(t) ==
    /\ serving
    /\ threads[t].op = "idle"
    /\ threads' = [threads EXCEPT
            ![t] = Thread("list", "next", None, Cardinality(DOMAIN sandboxes),
                          DOMAIN sandboxes, {}, {})]
    /\ UNCHANGED <<thread_last, sandboxVars, toolVars, kernelVars, rateVars, clientVars,
                   taskVars, convVars, callVars>>

\* the iterator of a dict raises RuntimeError when the dict has another size
\* than when it was made; with the same size and other keys it raises or
\* goes on, as the layout of the dict has it
IterRaises(t) ==
    IF Cardinality(DOMAIN sandboxes) # threads[t].size THEN {TRUE}
    ELSE IF DOMAIN sandboxes # threads[t].keys THEN {TRUE, FALSE}
    ELSE {FALSE}

\* list_sandboxes, one turn of the loop: the next entry is taken and its
\* container polled, or the loop ends and the result is returned
list_next(t, reloadOk) ==
    /\ threads[t].op = "list" /\ threads[t].pc = "next"
    /\ \E raises \in IterRaises(t) :
        IF raises
        THEN /\ thread_last' = ThreadEvent(t, "list", None, 500, "RuntimeError",
                                           FALSE, threads[t].visited)
             /\ threads' = [threads EXCEPT ![t] = ThreadIdle]
        ELSE IF DOMAIN sandboxes \ threads[t].visited = {}
        THEN /\ thread_last' = ThreadEvent(t, "list", None, 200, threads[t].result,
                                           FALSE, threads[t].visited)
             /\ threads' = [threads EXCEPT ![t] = ThreadIdle]
        ELSE /\ \E sid \in DOMAIN sandboxes \ threads[t].visited :
                    threads' = [threads EXCEPT
                        ![t].visited = @ \cup {sid},
                        ![t].result = @ \cup {[id |-> sid,
                                               status |-> PolledStatus(sid, reloadOk),
                                               port |-> sandboxes[sid].port]}]
             /\ UNCHANGED thread_last
    /\ UNCHANGED <<sandboxVars, toolVars, kernelVars, rateVars, clientVars, taskVars, convVars, callVars>>

\* the calls of one client that works with python sandboxes
ThreadNext ==
    \/ \E sid \in Ids : create_sandbox("python", sid, TRUE)
    \/ \E t \in Threads, sid \in Ids : delete_check(t, sid)
    \/ \E t \in Threads : delete_pop(t)
    \/ \E t \in Threads, outcome \in CleanupOutcomes : delete_stop(t, outcome)
    \/ \E t \in Threads : list_iter(t)
    \/ \E t \in Threads, reloadOk \in BOOLEAN : list_next(t, reloadOk)

ThreadSpec == Init /\ [][ThreadNext]_vars

\* the kernel as a program of its own: one process, its two routes
KernelNext ==
    \/ \E code \in KernelCodes : kernel_execute(code)
    \/ health

KernelSpec == Init /\ [][KernelNext]_vars

(***************************************************************************)
(* sandbox/middleware.py                                                   *)
(***************************************************************************)
\* SANDBOX_API_KEY of a deployment that sets one
SANDBOX_API_KEY == <<"k", "1">>

\* the Authorization headers requests carry; the empty one stands for a
\* request without the header
Headers == {
    <<>>,
    <<"B", "e", "a", "r", "e", "r", " ", "k", "1">>,
    <<"B", "e", "a", "r", "e", "r", " ", "k", "2">>,
    <<"B", "e", "a", "r", "e", "r", " ", "k", "1", " ">>,
    <<"B", "a", "s", "i", "c", " ", "k", "1">>,
    <<"b", "e", "a", "r", "e", "r", " ", "k", "1">>
}

\* str.startswith
startswith(s, prefix) ==
    Len(s) >= Len(prefix) /\ SubSeq(s, 1, Len(prefix)) = prefix

\* auth.split(" ", 1)[1]: what follows the first space
split_1(s) ==
    LET k == CHOOSE k \in 1..Len(s) : s[k] = " " /\ \A j \in 1..(k - 1) : s[j] # " "
    IN  SubSeq(s, k + 1, Len(s))

\* dispatch goes on to call_next(request)
CallNext == 0

\* AuthMiddleware.dispatch: the status of the HTTPException it raises, or
\* CallNext
AuthMiddleware_dispatch(auth) ==
    IF SANDBOX_API_KEY # <<>>
    THEN IF auth = <<>> \/ ~startswith(auth, <<"B", "e", "a", "r", "e", "r", " ">>)
         THEN 401
         ELSE IF split_1(auth) # SANDBOX_API_KEY THEN 403 ELSE CallNext
    ELSE CallNext

\* app.add_middleware(AuthMiddleware) after RateLimitMiddleware makes it the
\* outermost one: an exception raised in its dispatch is outside the
\* exception handlers of the application, and the server answers it with
\* 500 Internal Server Error
Unhandled(status_code) == 500

\* the routes of the Manager
Handlers ==
    \/ \E lang \in Langs, sid \in Ids, runOk \in BOOLEAN : create_sandbox(lang, sid, runOk)
    \/ \E reloadOk \in [DOMAIN sandboxes -> BOOLEAN] : list_sandboxes(reloadOk)
    \/ \E sid \in Ids, reloadOk \in BOOLEAN : get_sandbox(sid, reloadOk)
    \/ \E sid \in Ids, outcome \in CleanupOutcomes : delete_sandbox(sid, outcome)
    \/ \E sid \in Ids, code \in Codes, connects \in BOOLEAN : execute_code(sid, code, connects)

\* a request the middleware does not let through: no handler runs
Rejected(auth) ==
    /\ serving
    /\ AuthMiddleware_dispatch(auth) # CallNext
    /\ last' = Event("rejected", None, <<>>, Unhandled(AuthMiddleware_dispatch(auth)),
                     "Internal Server Error", NoAnswer)
    /\ UNCHANGED <<sandboxes, containers, inflight, deleted, serving, toolVars, kernelVars, rateVars, clientVars, taskVars, convVars, threadVars, callVars>>

\* a request to the Manager of a deployment with SANDBOX_API_KEY set
AuthRequest(auth) ==
    \/ AuthMiddleware_dispatch(auth) = CallNext /\ Handlers
    \/ Rejected(auth)

AuthNext ==
    \/ \E auth \in Headers : AuthRequest(auth)
    \/ KernelAnswers
    \/ KernelFails
    \/ Timeout
    \/ ConnectionLost
    \/ \E c \in Ids : ContainerExits(c)
    \/ \E outcome \in [DOMAIN sandboxes -> CleanupOutcomes] : lifespan_shutdown(outcome)

AuthSpec == Init /\ [][AuthNext]_vars

\* the rate limiter
RATE_LIMIT_WINDOW == 60
RATE_LIMIT_MAX == 100

\* a client stops sending in a window once this many of its requests have
\* been counted in it
MaxCount == 101

\* the values time.time() takes
Times == {0, 60, 61}

\* what a request shows of its sender: the X-Forwarded-For header (its
\* comma-separated elements, none when the header is absent) and the host of
\* the connection
Requests == {
    [forwarded |-> <<>>, host |-> "10.0.0.1"],
    [forwarded |-> <<"10.0.0.2", "10.0.0.1">>, host |-> "10.0.0.1"]
}

\* the statuses the handlers answer with
Responses == {200, 404}

\* _get_client_id
get_client_id(request) ==
    IF request.forwarded # <<>> THEN request.forwarded[1] ELSE request.host

\* _RATE_LIMIT[client_id] of the defaultdict: (0, time.time()) for a new client
RateEntry(client_id) ==
    IF client_id \in DOMAIN rate_limit
    THEN rate_limit[client_id]
    ELSE [count |-> 0, window_start |-> now]

\* the test for a new window as it would be with >= in place of >
WindowOver_inclusive(window_start) == now - window_start >= RATE_LIMIT_WINDOW

\* now - window_start > RATE_LIMIT_WINDOW
WindowOver(window_start) == now - window_start > RATE_LIMIT_WINDOW

\* the entry as it would be if a request over the budget started the window
\* anew
Counted_restarting(client_id) ==
    LET e == RateEntry(client_id) IN
    IF WindowOver(e.window_start)
    THEN [count |-> 1, window_start |-> now]
    ELSE [count |-> e.count + 1,
          window_start |-> IF e.count + 1 > RATE_LIMIT_MAX THEN now ELSE e.window_start]

\* the entry dispatch stores for the request: the window is started anew
\* when it is over, then the request is counted
Counted(client_id) ==
    LET e == RateEntry(client_id) IN
    IF WindowOver(e.window_start)
    THEN [count |-> 1, window_start |-> now]
    ELSE [count |-> e.count + 1, window_start |-> e.window_start]

\* count > RATE_LIMIT_MAX
OverBudget(count) == count > RATE_LIMIT_MAX

Max(a, b) == IF a >= b THEN a ELSE b

\* RateLimitMiddleware.dispatch; `response` is the status the handler answers
\* with when the request is let through. The HTTPException(429) is raised
\* inside the middleware, outside the exception handlers of the application
RateLimitMiddleware_dispatch(request, response) ==
    LET client_id == get_client_id(request)
        entry == Counted(client_id)
    IN  /\ entry.count <= MaxCount
        /\ rate_limit' = [c \in DOMAIN rate_limit \cup {client_id} |->
                IF c = client_id THEN entry ELSE rate_limit[c]]
        /\ rate_last' =
                IF OverBudget(entry.count)
                THEN RateEvent(client_id, RateEntry(client_id).count, Unhandled(429), {}, FALSE)
                ELSE RateEvent(client_id, RateEntry(client_id).count, response,
                        {<<"X-RateLimit-Remaining", Max(0, RATE_LIMIT_MAX - entry.count)>>},
                        TRUE)
        /\ UNCHANGED <<now, sandboxVars, toolVars, kernelVars, clientVars, taskVars, convVars, threadVars, callVars>>

\* time passes
Tick ==
    /\ \E t \in Times : t > now /\ now' = t
    /\ UNCHANGED <<rate_limit, rate_last, sandboxVars, toolVars, kernelVars, clientVars, taskVars, convVars, threadVars, callVars>>

RateNext ==
    \/ \E request \in Requests, response \in Responses :
            RateLimitMiddleware_dispatch(request, response)
    \/ Tick

RateSpec == Init /\ [][RateNext]_vars

(***************************************************************************)
(* tools/dynamic_tools.py                                                  *)
(***************************************************************************)
\* the names, argument lists, docstrings and uuid prefixes generate_tool is
\* called with
ToolNames == {<<"f">>, <<"2", "x">>}
Args == {"x: int"}
Docs == {"doc"}
ToolIds == {"0a1b2c3d"}

\* further lines of a tool body: what ast.parse makes of the function they
\* are assembled into ("ok" or the exception it raises), the types of the
\* nodes of the line, the ids of its Name nodes and the ids of the Name nodes
\* its Attribute nodes are taken of
ToolStatement == [
    bad_syntax |-> [text |-> "x = (", parse |-> "SyntaxError",
                    nodes |-> {}, names |-> {}, attrs |-> {}],
    long_chain |-> [text |-> "x = 1+1+...+1 (100000 terms)", parse |-> "RecursionError",
                    nodes |-> {}, names |-> {}, attrs |-> {}],
    long_minus |-> [text |-> "x = ---...-1 (200000 signs)", parse |-> "MemoryError",
                    nodes |-> {}, names |-> {}, attrs |-> {}],
    os_getcwd |-> [text |-> "os.getcwd()", parse |-> "ok",
                   nodes |-> {"Expr", "Call", "Attribute", "Name", "Load"},
                   names |-> {"os"}, attrs |-> {"os"}],
    nested_attr |-> [text |-> "x.os.path", parse |-> "ok",
                     nodes |-> {"Expr", "Attribute", "Name", "Load"},
                     names |-> {"x"}, attrs |-> {"x"}],
    open_call |-> [text |-> "open('f')", parse |-> "ok",
                   nodes |-> {"Expr", "Call", "Name", "Load", "Constant"},
                   names |-> {"open"}, attrs |-> {}],
    getattr_call |-> [text |-> "getattr(x, 'os')", parse |-> "ok",
                      nodes |-> {"Expr", "Call", "Name", "Load", "Constant"},
                      names |-> {"getattr", "x"}, attrs |-> {}],
    from_import |-> [text |-> "from os import path", parse |-> "ok",
                     nodes |-> {"ImportFrom", "alias"}, names |-> {}, attrs |-> {}],
    global_x |-> [text |-> "global x", parse |-> "ok",
                  nodes |-> {"Global"}, names |-> {}, attrs |-> {}],
    nonlocal_x |-> [text |-> "nonlocal x", parse |-> "ok",
                    nodes |-> {"Nonlocal"}, names |-> {}, attrs |-> {}],
    lambda_y |-> [text |-> "y = lambda: 1", parse |-> "ok",
                  nodes |-> {"Assign", "Name", "Store", "Lambda", "arguments", "Constant"},
                  names |-> {"y"}, attrs |-> {}],
    async_def |-> [text |-> "async def g(): pass", parse |-> "ok",
                   nodes |-> {"AsyncFunctionDef", "arguments", "Pass"},
                   names |-> {}, attrs |-> {}],
    class_def |-> [text |-> "class C: pass", parse |-> "ok",
                   nodes |-> {"ClassDef", "Pass"}, names |-> {}, attrs |-> {}],
    nested_def |-> [text |-> "def g(): pass", parse |-> "ok",
                    nodes |-> {"FunctionDef", "arguments", "Pass"},
                    names |-> {}, attrs |-> {}]
]

\* the lines ast.parse raises on
FailingLines == {l \in DOMAIN ToolStatement : ToolStatement[l].parse # "ok"}

\* the bodies generate_tool is called with
ToolCodes == UNION {[1..n -> Lines \cup FailingLines] : n \in 1..MaxStmts}

\* the bodies the syntax-tree screen is applied to
MaxScreenStmts == 2
ScreenLines == Lines \cup DOMAIN ToolStatement
ScreenCodes == UNION {[1..n -> ScreenLines] : n \in 1..MaxScreenStmts}

\* what is known of a line of either table
Syntax(line) ==
    IF line \in DOMAIN ToolStatement
    THEN ToolStatement[line]
    ELSE [text |-> Statement[line].text, parse |-> "ok",
          nodes |-> Statement[line].nodes, names |-> Statement[line].names,
          attrs |-> Statement[line].attrs]

\* FORBIDDEN_NODE_TYPES with the anonymous function left out
FORBIDDEN_NODE_TYPES_without_lambda ==
    {"Import", "ImportFrom", "Global", "Nonlocal", "AsyncFunctionDef", "ClassDef"}

FORBIDDEN_NODE_TYPES ==
    {"Import", "ImportFrom", "Global", "Nonlocal", "Lambda", "AsyncFunctionDef", "ClassDef"}

FORBIDDEN_NAMES ==
    {"os", "sys", "subprocess", "eval", "exec", "compile", "__import__", "open"}

\* str.isidentifier
isidentifier(name) ==
    /\ Len(name) > 0
    /\ name[1] \notin Digits
    /\ \A i \in 1..Len(name) : IsWord(name[i])

\* _assemble_function: def name(args): """doc""" followed by the body
assemble_function(name, args, code, doc) ==
    [name |-> name, args |-> args, doc |-> doc, body |-> code]

\* ast.parse(full_code): "ok" or the exception of the first line it fails on
ast_parse(src) ==
    IF \A i \in 1..Len(src.body) : Syntax(src.body[i]).parse = "ok"
    THEN "ok"
    ELSE LET i == CHOOSE j \in 1..Len(src.body) :
                    /\ Syntax(src.body[j]).parse # "ok"
                    /\ \A k \in 1..(j - 1) : Syntax(src.body[k]).parse = "ok"
         IN  Syntax(src.body[i]).parse

\* ast.walk(ast.parse(full_code)): the node types, the ids of the Name nodes
\* and the ids of the Name nodes that Attribute nodes are taken of
AstNodes(src) ==
    {"Module", "FunctionDef", "arguments", "arg", "Name", "Load", "Expr", "Constant"}
        \cup UNION {Syntax(src.body[i]).nodes : i \in 1..Len(src.body)}

\* the Name nodes of the signature as they would be if the screen were
\* applied to the body alone
ArgNames_of_body_alone(args) == {}

\* the ids of the Name nodes of the signature
ArgNames(args) ==
    IF args = "x: int" THEN {"int"}
    ELSE IF args = "x=open" THEN {"open"}
    ELSE {}

AstNames(src) ==
    ArgNames(src.args)
        \cup UNION {Syntax(src.body[i]).names : i \in 1..Len(src.body)}

AstAttrs(src) == UNION {Syntax(src.body[i]).attrs : i \in 1..Len(src.body)}

\* _validate_ast: TRUE when it raises ValueError, which it does on a
\* SyntaxError of ast.parse and on a forbidden node, name or attribute
validate_ast(src) ==
    \/ ast_parse(src) = "SyntaxError"
    \/ /\ ast_parse(src) = "ok"
       /\ \/ AstNodes(src) \cap FORBIDDEN_NODE_TYPES # {}
          \/ AstNames(src) \cap FORBIDDEN_NAMES # {}
          \/ AstAttrs(src) \cap FORBIDDEN_NAMES # {}

\* _compile_and_create_tool: the exception it ends with, or "Tool"
compile_and_create_tool(src) ==
    IF validate_ast(src) THEN "ValueError"
    ELSE IF ast_parse(src) # "ok" THEN ast_parse(src)
    ELSE "Tool"

\* `except Exception` as it would be if it caught nothing
except_Exception_nothing(exc) == FALSE

\* except Exception: the classes it catches
except_Exception(exc) ==
    exc \in {"ValueError", "SyntaxError", "RecursionError", "MemoryError", "OSError"}

ToolCall(name, args, code, doc, result) ==
    [name |-> name, args |-> args, code |-> code, doc |-> doc, result |-> result]

\* the test for a taken name as it would be if it were left out
Registered_never(name) == FALSE

\* name in _dynamic_tool_registry
Registered(name) == name \in DOMAIN dynamic_tool_registry

\* source_path.write_text(...): the file at the path is created or replaced
write_text(path, text) ==
    {f \in dynamic_files : f.path # path} \cup {[path |-> path, text |-> text]}

\* generate_tool; `writeOk` is whether mkdir and write_text succeed
generate_tool(name, args, code, doc, tool_id, writeOk) ==
    /\ IF Registered(name)
       THEN /\ tool_last' = ToolCall(name, args, code, doc, "Error: already exists")
            /\ UNCHANGED <<dynamic_tool_registry, dynamic_files>>
       ELSE IF ~isidentifier(name)
       THEN /\ tool_last' = ToolCall(name, args, code, doc, "Error: not a valid identifier")
            /\ UNCHANGED <<dynamic_tool_registry, dynamic_files>>
       ELSE IF compile_and_create_tool(assemble_function(name, args, code, doc)) = "ValueError"
       THEN /\ tool_last' = ToolCall(name, args, code, doc, "Validation failed")
            /\ UNCHANGED <<dynamic_tool_registry, dynamic_files>>
       ELSE IF compile_and_create_tool(assemble_function(name, args, code, doc)) # "Tool"
       THEN /\ tool_last' = ToolCall(name, args, code, doc,
                    IF except_Exception(
                        compile_and_create_tool(assemble_function(name, args, code, doc)))
                    THEN "Compilation failed"
                    ELSE compile_and_create_tool(assemble_function(name, args, code, doc)))
            /\ UNCHANGED <<dynamic_tool_registry, dynamic_files>>
       ELSE /\ dynamic_tool_registry' =
                [n \in DOMAIN dynamic_tool_registry \cup {name} |->
                    IF n = name
                    THEN [tool |-> assemble_function(name, args, code, doc),
                          meta |-> [args |-> args, doc |-> doc, created_at |-> tool_id]]
                    ELSE dynamic_tool_registry[n]]
            /\ IF writeOk
               THEN /\ dynamic_files' = write_text(<<name, tool_id>>,
                                            assemble_function(name, args, code, doc))
                    /\ tool_last' = ToolCall(name, args, code, doc, "registered successfully")
               ELSE /\ UNCHANGED dynamic_files
                    /\ tool_last' = ToolCall(name, args, code, doc, "OSError")
    /\ UNCHANGED <<sandboxVars, kernelVars, rateVars, clientVars, taskVars, convVars, threadVars, callVars>>

\* cli_framework.py, cmd_create_tool: its first statement imports
\* ALLOWED_IMPORTS from tools.dynamic_tools, which defines no such name; the
\* command ends there with ImportError, before it reads a file or a line
cmd_create_tool ==
    /\ tool_last' = ToolCall(None, None, <<>>, None, "ImportError")
    /\ UNCHANGED <<dynamic_tool_registry, dynamic_files, sandboxVars, kernelVars, rateVars, clientVars, taskVars, convVars, threadVars, callVars>>

ToolNext ==
    \/ \E name \in ToolNames, args \in Args, code \in ToolCodes, doc \in Docs,
          tool_id \in ToolIds, writeOk \in BOOLEAN :
            generate_tool(name, args, code, doc, tool_id, writeOk)
    \/ cmd_create_tool

ToolSpec == Init /\ [][ToolNext]_vars

\* registrations with a body of one line and a signature that may hold what
\* the screen forbids: an annotated argument, or one whose default value is
\* the builtin open
SignatureNext ==
    \/ \E name \in ToolNames, args \in {"x: int", "x=open"},
          code \in [1..1 -> ScreenLines], doc \in Docs,
          tool_id \in ToolIds, writeOk \in BOOLEAN :
            generate_tool(name, args, code, doc, tool_id, writeOk)
    \/ cmd_create_tool

SignatureSpec == Init /\ [][SignatureNext]_vars

\* get_dynamic_tools: the tools of the registry
get_dynamic_tools ==
    {dynamic_tool_registry[n].tool : n \in DOMAIN dynamic_tool_registry}

\* list_dynamic_tools: the name and the meta data of each entry of the registry
list_dynamic_tools ==
    {[name |-> n, meta |-> dynamic_tool_registry[n].meta] :
        n \in DOMAIN dynamic_tool_registry}

\* the process ends and a new one imports tools.dynamic_tools: the module
\* level assignment makes the registry empty, the files of DYNAMIC_TOOLS_DIR
\* stay, and no code of the module reads them
Restart ==
    /\ dynamic_tool_registry' = NoEntries
    /\ tool_last' = ToolCall(None, None, <<>>, None, "restart")
    /\ UNCHANGED <<dynamic_files, sandboxVars, kernelVars, rateVars, clientVars, taskVars, convVars, threadVars, callVars>>

RestartNext == ToolNext \/ Restart

\* the state in which _compile_and_create_tool is about to be called with a
\* name that is an identifier and a body of ScreenCodes
ScreenInit ==
    /\ sandboxes = NoEntries
    /\ containers = [c \in Ids |-> Absent]
    /\ inflight = {}
    /\ last = Event("startup", None, <<>>, 200, None, NoAnswer)
    /\ deleted = {}
    /\ serving = TRUE
    /\ dynamic_tool_registry = NoEntries
    /\ dynamic_files = {}
    /\ \E name \in {n \in ToolNames : isidentifier(n)}, args \in Args,
          code \in ScreenCodes, doc \in Docs :
            tool_last = ToolCall(name, args, code, doc, "called")
    /\ kernel_globals = {}
    /\ kernel_last = KernelEvent("startup", <<>>, 200, None)
    /\ rate_limit = NoEntries
    /\ now = 0
    /\ rate_last = RateEvent(None, 0, 0, {}, FALSE)
    /\ sandbox_id_ref = None
    /\ client = ClientIdle
    /\ tasks = NoEntries
    /\ task_last = TaskCall("startup", None, None, None, None, None)
    /\ conversations = <<>>
    /\ db_now = 0
    /\ conv_last = ConvCall("startup", None, 0, <<>>)
    /\ threads = [t \in Threads |-> ThreadIdle]
    /\ thread_last = ThreadEvent(None, "startup", None, 200, None, FALSE, {})
    /\ calls = [k \in AgentTasks |-> Call("idle", <<>>, None, <<>>)]
    /\ posted = {}

\* one call of _compile_and_create_tool, on its own
compile_call ==
    /\ tool_last.result = "called"
    /\ tool_last' = ToolCall(tool_last.name, tool_last.args, tool_last.code, tool_last.doc,
                        compile_and_create_tool(
                            assemble_function(tool_last.name, tool_last.args,
                                              tool_last.code, tool_last.doc)))
    /\ UNCHANGED <<dynamic_tool_registry, dynamic_files, sandboxVars, kernelVars, rateVars, clientVars, taskVars, convVars, threadVars, callVars>>

ScreenNext == compile_call

ScreenSpec == ScreenInit /\ [][ScreenNext]_vars

RestartSpec == Init /\ [][RestartNext]_vars

(***************************************************************************)
(* tools/sandbox_tools.py                                                  *)
(***************************************************************************)
\* no response: httpx raises a connect error or its timeout
Unanswered == 0

\* what POST /sandboxes can come back with
CreateAnswers ==
    {[status |-> 200, id |-> i] : i \in Ids}
        \cup {[status |-> 500, id |-> None], [status |-> Unanswered, id |-> None]}

\* the JSON objects of a 200 answer of POST /sandboxes/{id}/execute
ExecuteData ==
    {[success |-> TRUE, stdout |-> "4\n", stderr |-> ""],
     [success |-> TRUE, stdout |-> "", stderr |-> ""],
     [success |-> FALSE, stdout |-> "", stderr |-> "x"],
     [success |-> FALSE, stdout |-> "", stderr |-> ""]}

\* what POST /sandboxes/{id}/execute can come back with
ExecuteAnswers ==
    {[status |-> 200, data |-> d] : d \in ExecuteData}
        \cup {[status |-> st, data |-> None] :
                st \in {400, 404, 500, 502, 503, 504, Unanswered}}

\* resp.raise_for_status() and the errors of the post: httpx.HTTPError
HTTPError(answer) == answer.status = Unanswered \/ answer.status >= 400

\* execute_code: the text made of (success, stdout, stderr)
Output(success, stdout, stderr) ==
    LET parts == (IF stdout # "" THEN <<stdout>> ELSE <<>>)
                    \o (IF stderr # "" THEN <<"stderr: ", stderr>> ELSE <<>>)
        failed == IF ~success /\ parts = <<>> THEN <<"Execution failed">> ELSE parts
    IN  IF failed # <<>> THEN failed ELSE <<"No output">>

\* execute_code of the tools, up to its first await: with no sandbox id in
\* the session it posts the create request, otherwise the execute request
tool_execute_code(code) ==
    /\ client.pc = "idle"
    /\ client' = IF sandbox_id_ref = None
                 THEN ClientCall("execute_code", "create_sent", code, 1, 0, <<>>)
                 ELSE ClientCall("execute_code", "execute_sent", code, 0, 1, <<>>)
    /\ UNCHANGED <<sandbox_id_ref, sandboxVars, toolVars, kernelVars, rateVars, taskVars, convVars, threadVars, callVars>>

\* create_sandbox of the tools, up to its await: it posts the create request
tool_create_sandbox ==
    /\ client.pc = "idle"
    /\ client' = ClientCall("create_sandbox", "create_sent", <<>>, 1, 0, <<>>)
    /\ UNCHANGED <<sandbox_id_ref, sandboxVars, toolVars, kernelVars, rateVars, taskVars, convVars, threadVars, callVars>>

\* the create request comes back: on an error the tool returns, otherwise it
\* stores the id and, in execute_code, posts the execute request
create_answered(answer) ==
    /\ client.pc = "create_sent"
    /\ IF HTTPError(answer)
       THEN /\ client' = [client EXCEPT !.pc = "idle",
                            !.result = IF client.tool = "execute_code"
                                       THEN Output(FALSE, "", "Sandbox unavailable")
                                       ELSE <<"Failed to create sandbox">>]
            /\ UNCHANGED sandbox_id_ref
       ELSE /\ sandbox_id_ref' = answer.id
            /\ client' = IF client.tool = "execute_code"
                         THEN [client EXCEPT !.pc = "execute_sent", !.executes = @ + 1]
                         ELSE [client EXCEPT !.pc = "idle",
                                             !.result = <<"Sandbox created: ", answer.id>>]
    /\ UNCHANGED <<sandboxVars, toolVars, kernelVars, rateVars, taskVars, convVars, threadVars, callVars>>

\* the execute request as it would be if it were posted again after an error
execute_answered_again(answer) ==
    /\ client.pc = "execute_sent"
    /\ client' = IF HTTPError(answer)
                 THEN [client EXCEPT !.executes = @ + 1]
                 ELSE [client EXCEPT !.pc = "idle",
                           !.result = Output(answer.data.success, answer.data.stdout,
                                             answer.data.stderr)]
    /\ UNCHANGED <<sandbox_id_ref, sandboxVars, toolVars, kernelVars, rateVars, taskVars, convVars, threadVars, callVars>>

\* the execute request comes back and the tool returns
execute_answered(answer) ==
    /\ client.pc = "execute_sent"
    /\ client' = [client EXCEPT !.pc = "idle",
                    !.result = IF HTTPError(answer)
                               THEN Output(FALSE, "", "HTTPError")
                               ELSE Output(answer.data.success, answer.data.stdout,
                                           answer.data.stderr)]
    /\ UNCHANGED <<sandbox_id_ref, sandboxVars, toolVars, kernelVars, rateVars, taskVars, convVars, threadVars, callVars>>

\* the Manager and the agent's tools are two processes that share no state;
\* a behaviour runs one of them, the Manager under the requests of Next or
\* the tools against the answers drawn above
ManagerIdle ==
    /\ sandboxes = NoEntries
    /\ containers = [c \in Ids |-> Absent]
    /\ inflight = {}
    /\ last = Event("startup", None, <<>>, 200, None, NoAnswer)
    /\ deleted = {}
    /\ serving

ToolsIdle == sandbox_id_ref = None /\ client = ClientIdle

NoRetryNext ==
    \/ ToolsIdle /\ \E lang \in Langs, sid \in Ids, runOk \in BOOLEAN :
                        create_sandbox(lang, sid, runOk)
    \/ ToolsIdle /\ \E reloadOk \in [DOMAIN sandboxes -> BOOLEAN] : list_sandboxes(reloadOk)
    \/ ToolsIdle /\ \E sid \in Ids, reloadOk \in BOOLEAN : get_sandbox(sid, reloadOk)
    \/ ToolsIdle /\ \E sid \in Ids, outcome \in CleanupOutcomes : delete_sandbox(sid, outcome)
    \/ ToolsIdle /\ \E sid \in Ids, code \in Codes, connects \in BOOLEAN :
                        execute_code(sid, code, connects)
    \/ ToolsIdle /\ KernelAnswers
    \/ ToolsIdle /\ KernelFails
    \/ ToolsIdle /\ Timeout
    \/ ToolsIdle /\ ConnectionLost
    \/ ToolsIdle /\ \E c \in Ids : ContainerExits(c)
    \/ ToolsIdle /\ \E outcome \in [DOMAIN sandboxes -> CleanupOutcomes] :
                        lifespan_shutdown(outcome)
    \/ ManagerIdle /\ \E code \in Codes : tool_execute_code(code)
    \/ ManagerIdle /\ tool_create_sandbox
    \/ ManagerIdle /\ \E answer \in CreateAnswers : create_answered(answer)
    \/ ManagerIdle /\ \E answer \in ExecuteAnswers : execute_answered(answer)

NoRetrySpec == Init /\ [][NoRetryNext]_vars

\* execute_code calls of one session that run as tasks of one event loop: a
\* task runs from one await to the next. _execute_in_sandbox_raw up to its
\* first await: it reads the session's sandbox id and posts the create
\* request when there is none, the execute request otherwise
raw_begin(k, code) ==
    /\ calls[k].pc = "idle"
    /\ calls' = [calls EXCEPT ![k] =
            IF sandbox_id_ref = None
            THEN Call("create_sent", code, None, <<>>)
            ELSE Call("execute_sent", code, sandbox_id_ref, <<>>)]
    /\ UNCHANGED <<posted, clientVars, sandboxVars, toolVars, kernelVars, rateVars,
                   taskVars, convVars, threadVars>>

\* the create request comes back: the Manager made a sandbox under a new id;
\* the task stores the id in the session and posts the execute request
raw_create_answered(k, answer) ==
    /\ calls[k].pc = "create_sent"
    /\ IF HTTPError(answer)
       THEN /\ calls' = [calls EXCEPT ![k] =
                    Call("idle", calls[k].code, None, Output(FALSE, "", "Sandbox unavailable"))]
            /\ UNCHANGED <<posted, sandbox_id_ref>>
       ELSE /\ [op |-> "create", id |-> answer.id] \notin posted
            /\ posted' = posted \cup {[op |-> "create", id |-> answer.id]}
            /\ sandbox_id_ref' = answer.id
            /\ calls' = [calls EXCEPT ![k].pc = "execute_sent", ![k].sandbox_id = answer.id]
    /\ UNCHANGED <<client, sandboxVars, toolVars, kernelVars, rateVars, taskVars, convVars,
                   threadVars>>

\* the execute request comes back and the call returns
raw_execute_answered(k, answer) ==
    /\ calls[k].pc = "execute_sent"
    /\ posted' = posted \cup {[op |-> "execute", id |-> calls[k].sandbox_id]}
    /\ calls' = [calls EXCEPT ![k] =
            Call("idle", calls[k].code, calls[k].sandbox_id,
                 IF HTTPError(answer)
                 THEN Output(FALSE, "", "HTTPError")
                 ELSE Output(answer.data.success, answer.data.stdout, answer.data.stderr))]
    /\ UNCHANGED <<clientVars, sandboxVars, toolVars, kernelVars, rateVars, taskVars,
                   convVars, threadVars>>

RawNext ==
    \/ \E k \in AgentTasks, code \in OverlapCodes : raw_begin(k, code)
    \/ \E k \in AgentTasks, answer \in CreateAnswers : raw_create_answered(k, answer)
    \/ \E k \in AgentTasks, answer \in ExecuteAnswers : raw_execute_answered(k, answer)

RawSpec == Init /\ [][RawNext]_vars

(***************************************************************************)
(* tools/task_tools.py, memory/structured_store.py                         *)
(***************************************************************************)
\* the sessions, the first eight characters of uuid4, the titles, the
\* descriptions and the statuses the task tools are called with
Sessions == {"s1", "s2"}
TaskIds == {"0a1b2c3d", "4e5f6a7b"}
Titles == {"Test task", "Other task"}
Descriptions == {"A test"}
Statuses == {"pending", "in_progress", "done"}

\* json.loads(json.dumps(metadata or {})): the stored text read back; a dict
\* of one string under "description" comes back equal
metadata_json(metadata) == [description |-> metadata.description]

\* upsert_task: the row with this primary key is looked up by id alone; if
\* there is one its title, status and metadata are replaced, and its session
\* and created_at stay; otherwise a row is added
upsert_task(table, session_id, task_id, title, status, metadata) ==
    IF task_id \in DOMAIN table
    THEN [table EXCEPT ![task_id] =
            [@ EXCEPT !.title = title, !.status = status,
                      !.metadata = metadata_json(metadata)]]
    ELSE [t \in DOMAIN table \cup {task_id} |->
            IF t = task_id
            THEN [id |-> task_id, session_id |-> session_id, title |-> title,
                  status |-> status, metadata |-> metadata_json(metadata),
                  created_at |-> Cardinality(DOMAIN table) + 1]
            ELSE table[t]]

\* the select of get_task finds a row: one of this id and this session
Found(table, session_id, task_id) ==
    task_id \in DOMAIN table /\ table[task_id].session_id = session_id

\* get_task: the row of this id and this session, or None
get_task(table, session_id, task_id) ==
    IF Found(table, session_id, task_id) THEN table[task_id] ELSE None

\* get_tasks: the rows of the session, ordered by created_at
get_tasks(table, session_id) ==
    LET rows == {table[t] : t \in {u \in DOMAIN table : table[u].session_id = session_id}}
    IN  CHOOSE seq \in [1..Cardinality(rows) -> rows] :
            /\ \A i, j \in 1..Cardinality(rows) : i # j => seq[i] # seq[j]
            /\ \A i, j \in 1..Cardinality(rows) :
                    i < j => seq[i].created_at <= seq[j].created_at

\* list_tasks: a TaskState for each row of get_tasks
list_tasks(table, session_id) ==
    [i \in 1..Len(get_tasks(table, session_id)) |->
        LET t == get_tasks(table, session_id)[i]
        IN  [id |-> t.id, title |-> t.title, status |-> t.status,
             metadata |-> t.metadata, created_at |-> t.created_at]]

\* create_task; `task_id` is str(uuid.uuid4())[:8]
create_task(session_id, title, description, task_id) ==
    /\ tasks' = upsert_task(tasks, session_id, task_id, title, "pending",
                            [description |-> description])
    /\ task_last' = TaskCall("create_task", session_id, task_id, title, "pending",
                             "Task created")
    /\ UNCHANGED <<sandboxVars, toolVars, kernelVars, rateVars, clientVars, convVars, threadVars, callVars>>

\* update_task_status
update_task_status(session_id, task_id, status) ==
    /\ IF ~Found(tasks, session_id, task_id)
       THEN /\ task_last' = TaskCall("update_task_status", session_id, task_id, None,
                                     status, "not found")
            /\ UNCHANGED tasks
       ELSE /\ tasks' = upsert_task(tasks, session_id, task_id,
                                    get_task(tasks, session_id, task_id).title, status,
                                    get_task(tasks, session_id, task_id).metadata)
            /\ task_last' = TaskCall("update_task_status", session_id, task_id,
                                     get_task(tasks, session_id, task_id).title,
                                     status, "updated")
    /\ UNCHANGED <<sandboxVars, toolVars, kernelVars, rateVars, clientVars, convVars, threadVars, callVars>>

TaskNext ==
    \/ \E session_id \in Sessions, title \in Titles, description \in Descriptions,
          task_id \in TaskIds :
            create_task(session_id, title, description, task_id)
    \/ \E session_id \in Sessions, task_id \in TaskIds, status \in Statuses :
            update_task_status(session_id, task_id, status)

TaskSpec == Init /\ [][TaskNext]_vars

(***************************************************************************)
(* memory/structured_store.py: conversations                               *)
(***************************************************************************)
\* the rows the table is filled up to and the seconds the clock runs to
MaxConversations == 3
MaxDbTime == 1

\* append_conversation: a row with the next id; timestamp is the server
\* default func.now(), which SQLite gives in whole seconds
append_conversation(session_id, role, content) ==
    /\ Len(conversations) < MaxConversations
    /\ conversations' = Append(conversations,
            [id |-> Len(conversations) + 1, session_id |-> session_id, role |-> role,
             content |-> content, timestamp |-> db_now])
    /\ conv_last' = ConvCall("append_conversation", session_id, 0, <<>>)
    /\ UNCHANGED <<db_now, sandboxVars, toolVars, kernelVars, rateVars, clientVars, taskVars, threadVars, callVars>>

\* the ids of the rows of a session
SessionRows(session_id) ==
    {i \in 1..Len(conversations) : conversations[i].session_id = session_id}

\* ORDER BY timestamp DESC: the orders of the rows that SQL allows; rows of
\* equal timestamp come in any order
OrderedDesc(ids) ==
    {seq \in [1..Cardinality(ids) -> ids] :
        /\ \A i, j \in 1..Cardinality(ids) : i # j => seq[i] # seq[j]
        /\ \A i, j \in 1..Cardinality(ids) :
                i < j => conversations[seq[i]].timestamp >= conversations[seq[j]].timestamp}

\* .limit(limit): the first rows of the ordered result
Limit(seq, limit) == SubSeq(seq, 1, IF Len(seq) < limit THEN Len(seq) ELSE limit)

\* reversed(rows)
Reversed(seq) == [i \in 1..Len(seq) |-> seq[Len(seq) + 1 - i]]

\* the dict made of a row
ConvDict(i) ==
    [role |-> conversations[i].role, content |-> conversations[i].content,
     timestamp |-> conversations[i].timestamp]

\* get_conversations: the rows of the session by timestamp, newest first,
\* cut at limit, and returned in reverse
get_conversations(session_id, limit) ==
    /\ \E rows \in OrderedDesc(SessionRows(session_id)) :
            conv_last' = ConvCall("get_conversations", session_id, limit,
                [k \in 1..Len(Limit(rows, limit)) |->
                    ConvDict(Reversed(Limit(rows, limit))[k])])
    /\ UNCHANGED <<conversations, db_now, sandboxVars, toolVars, kernelVars, rateVars,
                   clientVars, taskVars, threadVars, callVars>>

\* a second passes
DbTick ==
    /\ db_now < MaxDbTime
    /\ db_now' = db_now + 1
    /\ UNCHANGED <<conversations, conv_last, sandboxVars, toolVars, kernelVars, rateVars,
                   clientVars, taskVars, threadVars, callVars>>

ConvNext ==
    \/ \E session_id \in Sessions, role \in {"user"}, content \in {"a", "b"} :
            append_conversation(session_id, role, content)
    \/ \E session_id \in Sessions, limit \in {1, 2, 100} :
            get_conversations(session_id, limit)
    \/ DbTick

ConvSpec == Init /\ [][ConvNext]_vars

(***************************************************************************)
(* Properties                                                              *)
(***************************************************************************)
\* a step in which execute_code takes up a call (no call is waiting before it)
ExecuteArrives == last'.op = "execute" /\ inflight = {}

\* C1: an execute call whose code matches a pattern of the denylist, in any
\* letter case, is answered 400; the step sends nothing to a kernel and
\* leaves the registry and the containers as they were.
C1_ForbiddenCodeRejected ==
    [][(ExecuteArrives /\ last'.code \in Forbidden)
        => /\ last'.status = 400
           /\ inflight' = {}
           /\ UNCHANGED <<sandboxes, containers>>]_vars

\* C1 witness: code that matches only when case is ignored was rejected for a
\* registered sandbox whose kernel is listening.
C1_Witness ==
    /\ last.op = "execute"
    /\ last.status = 400
    /\ ~RegexSearch(SourceText(last.code), FALSE)
    /\ last.id \in DOMAIN sandboxes
    /\ Listeners(sandboxes[last.id].port) # {}

\* C2 (as claimed): generate_tool rejects every code string that matches the
\* denylist of the pattern screen, so no registered tool and no persisted
\* file holds such code.
C2_ToolRegistrationScreened ==
    /\ tool_last.code \in Forbidden =>
            tool_last.result \in {"Error: already exists", "Error: not a valid identifier",
                                  "Validation failed"}
    /\ \A n \in DOMAIN dynamic_tool_registry :
            dynamic_tool_registry[n].tool.body \notin Forbidden
    /\ \A f \in dynamic_files : f.text.body \notin Forbidden

\* C3 (as claimed): execute on an id that is not registered is answered 404
\* whatever the code is.
C3_UnknownIdAlwaysNotFound ==
    [][(ExecuteArrives /\ last'.id \notin DOMAIN sandboxes)
        => last'.status = 404 /\ inflight' = {}]_vars

\* C3 (amended): execute on an id that is not registered is answered 400 when
\* the code matches the pattern screen and 404 otherwise; nothing is sent to
\* a kernel either way.
C3_UnknownIdScreenedThenNotFound ==
    [][(ExecuteArrives /\ last'.id \notin DOMAIN sandboxes)
        => /\ last'.status = (IF last'.code \in Forbidden THEN 400 ELSE 404)
           /\ inflight' = {}
           /\ UNCHANGED <<sandboxes, containers>>]_vars

\* C3 witness: forbidden code was sent to an unregistered id and answered 400.
C3_Witness ==
    /\ last.op = "execute"
    /\ last.id \notin DOMAIN sandboxes
    /\ last.code \in Forbidden
    /\ last.status = 400
    /\ inflight = {}

\* C4 (as claimed): once delete has removed an id, every later get, execute
\* and delete on it is answered 404 and list never shows it again.
C4_DeletedIdNeverSeenAgain ==
    [][/\ (last'.op \in {"get", "delete"} /\ last'.id \in deleted) => last'.status = 404
       /\ (ExecuteArrives /\ last'.id \in deleted) => last'.status = 404
       /\ last'.op = "list" => DOMAIN last'.body \cap deleted = {}]_vars

\* C4 (amended): get and delete on an unregistered id are answered 404 and
\* change neither the registry nor a container; execute on it is answered 400
\* for forbidden code and 404 otherwise; delete on a registered id removes
\* it; only a create that draws the id puts an id into the registry; list
\* shows exactly the registered ids.
C4_UnregisteredIdNotFound ==
    [][/\ (last'.op \in {"get", "delete"} /\ last'.id \notin DOMAIN sandboxes)
            => last'.status = 404 /\ UNCHANGED <<sandboxes, containers>>
       /\ (ExecuteArrives /\ last'.id \notin DOMAIN sandboxes)
            => last'.status = (IF last'.code \in Forbidden THEN 400 ELSE 404)
       /\ (last'.op = "delete" /\ last'.id \in DOMAIN sandboxes)
            => last'.id \notin DOMAIN sandboxes'
       /\ \A i \in DOMAIN sandboxes' \ DOMAIN sandboxes :
            last'.op = "create" /\ last'.status = 200 /\ last'.id = i
       /\ last'.op = "list" => DOMAIN last'.body = DOMAIN sandboxes]_vars

\* C4 witness: get on an id that delete has removed was answered 404.
C4_Witness ==
    /\ last.op = "get"
    /\ last.id \in deleted
    /\ last.id \notin DOMAIN sandboxes
    /\ last.status = 404

\* C5 (as claimed): while the manager serves, every running container has a
\* registry entry, also after a delete whose stop or remove raised.
C5_NoContainerWithoutEntry ==
    serving => \A c \in Ids : containers[c].state = "running" => c \in DOMAIN sandboxes

\* C6 (as claimed): a sandbox that leaves the registry was registered with a
\* container that was no longer running (it was seen stopping) beforehand.
C6_StoppingBeforeRemoved ==
    [][\A i \in DOMAIN sandboxes \ DOMAIN sandboxes' :
            PolledStatus(i, TRUE) # "running"]_vars

\* C7 (as claimed): an execute call ends 200, 400, 404 or 503, and 503
\* whenever the kernel gave no usable answer.
C7_FourOutcomes ==
    last.op = "execute" =>
        /\ last.status \in {Pending, 200, 400, 404, 503}
        /\ last.kernel.status \notin {0, 200} => last.status = 503

\* C8: every execute call that waits for its kernel returns; with no answer
\* it ends in 503 sandbox unreachable when the timeout fires.
C8_ExecuteReturns ==
    (inflight # {}) ~>
        (inflight = {} /\ last.op = "execute" /\ last.status \in {200, 500, 503})

\* C8 witness: a call ended by the timeout while the kernel's container was
\* still running.
C8_Witness ==
    /\ last.op = "execute"
    /\ last.status = 503
    /\ last.body = "ReadTimeout"
    /\ last.id \in DOMAIN sandboxes
    /\ containers[last.id].state = "running"

\* C9: whenever the kernel answered an execute call with an Execution Result,
\* execute_code answers 200 with the stdout, stderr and success of that
\* result, and it answers 200 in no other case.
C9_ResultVerbatim ==
    (last.op = "execute" /\ (last.status = 200 \/ last.kernel.status = 200)) =>
        /\ last.status = 200
        /\ last.kernel.status = 200
        /\ last.body.stdout = last.kernel.json.stdout
        /\ last.body.stderr = last.kernel.json.stderr
        /\ last.body.success = last.kernel.json.success

\* C9 witness: a failure of user code came back with its output and its
\* error text.
C9_Witness ==
    /\ last.op = "execute"
    /\ last.status = 200
    /\ last.body.success = FALSE
    /\ last.body.stderr # <<>>

\* C10 (as claimed): the kernel answers every request with an Execution
\* Result, and when the code raises, success is false and stderr holds the
\* text of the exception.
C10_KernelAlwaysReturnsResult ==
    last.kernel.status # 0 =>
        /\ last.kernel.status = 200
        /\ Exec(last.code, 1, <<>>).exc # "none" =>
                /\ last.kernel.json.success = FALSE
                /\ last.kernel.json.stderr = <<Exec(last.code, 1, <<>>).msg>>

\* C11 (as claimed): the answer of the kernel to execute(code) is the answer
\* a kernel that has run nothing before gives to the same code.
C11_FreshInterpreterState ==
    (kernel_last.op = "execute" /\ kernel_last.status = 200) =>
        kernel_last.json = execute_in(kernel_last.code, {})

\* C12 (as claimed): get(id) right after the create that returned id answers
\* status running and the port create returned, and list() right after it
\* shows the id exactly once.
C12_GetAfterCreateRunning ==
    [][(last.op = "create" /\ last.status = 200) =>
        /\ (last'.op = "get" /\ last'.id = last.id) =>
                /\ last'.status = 200
                /\ last'.body.status = "running"
                /\ last'.body.port = last.body.port
        /\ last'.op = "list" =>
                Cardinality({i \in DOMAIN last'.body : last'.body[i].id = last.id}) = 1]_vars

\* C12 (amended): get(id) right after the create that returned id answers
\* 200 with the port create returned, with status running when the poll of
\* the runtime succeeds and unknown when it fails; list() right after it
\* shows the id exactly once.
C12_GetAfterCreate ==
    [][(last.op = "create" /\ last.status = 200) =>
        /\ \A reloadOk \in BOOLEAN :
            get_sandbox(last.id, reloadOk) =>
                /\ last'.status = 200
                /\ last'.body.id = last.id
                /\ last'.body.port = last.body.port
                /\ last'.body.status = (IF reloadOk THEN "running" ELSE "unknown")
        /\ last'.op = "list" =>
                Cardinality({i \in DOMAIN last'.body : last'.body[i].id = last.id}) = 1]_vars

\* C12 witness: get on a registered sandbox whose container runs answered
\* with its port and status unknown, the poll having failed.
C12_Witness ==
    /\ last.op = "get"
    /\ last.status = 200
    /\ last.id \in DOMAIN sandboxes
    /\ containers[last.id].state = "running"
    /\ last.body.port = sandboxes[last.id].port
    /\ last.body.port \in Ports
    /\ last.body.status = "unknown"

\* C13 (as claimed): a create that finds the runtime unreachable when it
\* starts the container is answered 503 and leaves the registry as it was.
C13_RuntimeUnreachableIs503 ==
    [][\A sid \in Ids :
        create_sandbox("python", sid, FALSE) =>
            /\ last'.status = 503
            /\ UNCHANGED <<sandboxes, containers>>]_vars

\* C14: a create whose lang is not "python" is answered 400, starts no
\* container and leaves the registry as it was.
C14_OtherLangNotAttempted ==
    [][\A lang \in Langs \ {"python"}, sid \in Ids, runOk \in BOOLEAN :
        create_sandbox(lang, sid, runOk) =>
            /\ last'.op = "create"
            /\ last'.status = 400
            /\ UNCHANGED <<sandboxes, containers, inflight>>]_vars

\* C14 witness: a create was answered 400 although a port was free and the
\* runtime had a name to give, beside a sandbox registered earlier.
C14_Witness ==
    /\ last.op = "create"
    /\ last.status = 400
    /\ DOMAIN sandboxes # {}
    /\ FreePorts # {}
    /\ \E sid \in Ids : ~NameInUse(sid)

\* C15 (as claimed): at every moment no two registered sandboxes have the
\* same port.
C15_PortsDistinct ==
    \A i, j \in DOMAIN sandboxes :
        i # j => sandboxes[i].port # sandboxes[j].port

\* C16: a create that succeeds returns an id that was not in the registry,
\* adds exactly that entry and leaves every other entry and its container
\* as they were; every registered id is the id of its entry and has a
\* container of its name.
C16_IdsUnique ==
    /\ [][(last'.op = "create" /\ last'.status = 200) =>
            /\ last'.id \notin DOMAIN sandboxes
            /\ containers[last'.id].state = "absent"
            /\ DOMAIN sandboxes' = DOMAIN sandboxes \cup {last'.id}
            /\ \A i \in DOMAIN sandboxes :
                    sandboxes'[i] = sandboxes[i] /\ containers'[i] = containers[i]]_vars
    /\ [](\A i \in DOMAIN sandboxes :
            sandboxes[i].id = i /\ containers[i].state # "absent")

\* C16 witness: create drew the id of a registered sandbox; the runtime
\* refused the name and the entry is still there.
C16_Witness ==
    /\ last.op = "create"
    /\ last.status = 500
    /\ last.body = "Conflict"
    /\ last.id \in DOMAIN sandboxes
    /\ containers[last.id].state = "running"

\* C17: list() answers 200 with one item for every registered sandbox, with
\* its id and port; an entry whose poll fails is reported unknown and every
\* other entry with the status the runtime gives for it.
C17_ListBestEffort ==
    [][\A reloadOk \in [DOMAIN sandboxes -> BOOLEAN] :
        list_sandboxes(reloadOk) =>
            /\ last'.status = 200
            /\ DOMAIN last'.body = DOMAIN sandboxes
            /\ \A i \in DOMAIN sandboxes :
                /\ last'.body[i].id = i
                /\ last'.body[i].port = sandboxes[i].port
                /\ last'.body[i].status =
                        (IF reloadOk[i] THEN containers[i].state ELSE "unknown")]_vars

\* C17 witness: a listing of two running sandboxes in which the poll of one
\* failed and the other is reported running.
C17_Witness ==
    /\ last.op = "list"
    /\ last.status = 200
    /\ \E i, j \in DOMAIN last.body :
        /\ i # j
        /\ containers[i].state = "running"
        /\ last.body[i].status = "unknown"
        /\ containers[j].state = "running"
        /\ last.body[j].status = "running"

\* C18: shutdown ends with the registry empty; for every registered sandbox
\* whose stop and remove succeed the container is gone, whatever happens to
\* the others; a container whose remove raises has been stopped, one whose
\* stop raises is as it was; no other container is touched.
C18_ShutdownBestEffort ==
    [][\A outcome \in [DOMAIN sandboxes -> CleanupOutcomes] :
        lifespan_shutdown(outcome) =>
            /\ sandboxes' = NoEntries
            /\ \A c \in DOMAIN sandboxes :
                /\ outcome[c] = "ok" => containers'[c].state = "absent"
                /\ outcome[c] = "remove_raises" => containers'[c].state = "exited"
                /\ outcome[c] = "stop_raises" => containers'[c] = containers[c]
            /\ \A c \in Ids \ DOMAIN sandboxes : containers'[c] = containers[c]]_vars

\* C18 witness: after a shutdown in which the stop of one sandbox raised, the
\* container of the other sandbox is gone and the registry is empty.
C18_Witness ==
    /\ last.op = "shutdown"
    /\ sandboxes = NoEntries
    /\ \E c, d \in DOMAIN last.body :
        /\ last.body[c] = "stop_raises"
        /\ containers[c].state = "running"
        /\ last.body[d] = "ok"
        /\ containers[d].state = "absent"

\* C19 (as claimed): a registered sandbox that is not executed on any more is
\* eventually removed from the registry: again and again, every id is either
\* not registered or has just been used by an execute call.
C19_IdleSandboxReaped ==
    \A i \in Ids :
        []<>(i \notin DOMAIN sandboxes \/ (last.op = "execute" /\ last.id = i))

\* C20 (as claimed): with an API key set, a request whose Authorization
\* header is not "Bearer " followed by the key reaches no handler and changes
\* nothing; it is answered 401 when the header is missing, 403 when it is a
\* bearer credential with another value, and one of the two otherwise.
C20_BadCredentialRejected ==
    [][\A auth \in Headers :
        (auth # <<"B", "e", "a", "r", "e", "r", " ", "k", "1">> /\ AuthRequest(auth)) =>
            /\ UNCHANGED <<sandboxes, containers, inflight>>
            /\ last'.op = "rejected"
            /\ auth = <<>> => last'.status = 401
            /\ startswith(auth, <<"B", "e", "a", "r", "e", "r", " ">>) => last'.status = 403
            /\ last'.status \in {401, 403}]_vars

\* C21 (as claimed): a request is let through only while the count of its
\* client in the window is at most RATE_LIMIT_MAX; a request counted beyond
\* that (the 101st) is answered 429 and is not let through; the entry of no
\* other client changes.
C21_BudgetEnforced ==
    [][\A request \in Requests, response \in Responses :
        RateLimitMiddleware_dispatch(request, response) =>
            LET c == get_client_id(request) IN
            /\ rate_last'.forwarded => rate_limit'[c].count <= RATE_LIMIT_MAX
            /\ rate_limit'[c].count > RATE_LIMIT_MAX =>
                    rate_last'.status = 429 /\ ~rate_last'.forwarded
            /\ \A d \in DOMAIN rate_limit \ {c} : rate_limit'[d] = rate_limit[d]]_vars

\* C22: a request of a client whose window started more than
\* RATE_LIMIT_WINDOW seconds ago is let through, starts a window at its
\* arrival time and is counted as request 1 of it, whatever the count was;
\* a request that arrives earlier is counted in the running window.
C22_WindowReset ==
    [][\A request \in Requests, response \in Responses :
        (RateLimitMiddleware_dispatch(request, response)
            /\ get_client_id(request) \in DOMAIN rate_limit) =>
            LET c == get_client_id(request) IN
            IF now - rate_limit[c].window_start > RATE_LIMIT_WINDOW
            THEN /\ rate_limit'[c] = [count |-> 1, window_start |-> now]
                 /\ rate_last'.forwarded
                 /\ rate_last'.status = response
            ELSE rate_limit'[c] = [count |-> rate_limit[c].count + 1,
                                   window_start |-> rate_limit[c].window_start]]_vars

\* C22 witness: a client whose count had reached 101 was let through as
\* request 1 of a window that starts now.
C22_Witness ==
    /\ rate_last.forwarded
    /\ rate_last.count = MaxCount
    /\ rate_last.count > RATE_LIMIT_MAX
    /\ rate_limit[rate_last.client_id] = [count |-> 1, window_start |-> now]

\* C23 (as claimed): every response that passed the rate limiter, the one
\* that rejects a request included, has the header X-RateLimit-Remaining
\* with the value max(0, RATE_LIMIT_MAX - count of the client).
C23_RemainingOnEveryResponse ==
    rate_last.client_id # None =>
        rate_last.headers =
            {<<"X-RateLimit-Remaining",
               Max(0, RATE_LIMIT_MAX - rate_limit[rate_last.client_id].count)>>}

\* the steps of generate_tool: the ones that record one of its outcomes
GenerateToolStep ==
    tool_last'.result \in {"Error: already exists", "Error: not a valid identifier",
                           "Validation failed", "Compilation failed",
                           "registered successfully", "OSError"}

\* C24: generate_tool under a registered name answers that the tool already
\* exists and changes neither the registry nor the files; no step changes or
\* removes an entry of the registry.
C24_NameNeverOverwritten ==
    /\ [][(GenerateToolStep /\ tool_last'.name \in DOMAIN dynamic_tool_registry) =>
            /\ tool_last'.result = "Error: already exists"
            /\ UNCHANGED <<dynamic_tool_registry, dynamic_files>>]_vars
    /\ [][\A n \in DOMAIN dynamic_tool_registry :
            /\ n \in DOMAIN dynamic_tool_registry'
            /\ dynamic_tool_registry'[n] = dynamic_tool_registry[n]]_vars

\* C24 witness: a registration with other code under a registered name was
\* refused and the entry still holds the code it was created with.
C24_Witness ==
    /\ tool_last.result = "Error: already exists"
    /\ tool_last.name \in DOMAIN dynamic_tool_registry
    /\ dynamic_tool_registry[tool_last.name].tool.body # tool_last.code
    /\ \E f \in dynamic_files :
            f.text = dynamic_tool_registry[tool_last.name].tool

\* C25: a tool whose source is persisted is listed by list_dynamic_tools and
\* returned by get_dynamic_tools, also after a restart of the process.
C25_ToolSurvivesRestart ==
    \A f \in dynamic_files :
        /\ f.path[1] \in {t.name : t \in list_dynamic_tools}
        /\ f.text \in get_dynamic_tools

C27_ScreenFailsClosed ==
    [][(GenerateToolStep \/ tool_last'.result \in {"SyntaxError", "RecursionError",
                                                     "MemoryError"}) =>
        (ast_parse(assemble_function(tool_last'.name, tool_last'.args, tool_last'.code,
                                     tool_last'.doc)) # "ok" =>
            /\ tool_last'.result \in {"Error: already exists",
                                      "Error: not a valid identifier",
                                      "Validation failed", "Compilation failed"}
            /\ UNCHANGED <<dynamic_tool_registry, dynamic_files>>)]_vars

\* C27 witness: a body on which ast.parse raises RecursionError was refused
\* with a message, under a name that is free and a valid identifier.
C27_Witness ==
    /\ tool_last.result = "Compilation failed"
    /\ ast_parse(assemble_function(tool_last.name, tool_last.args, tool_last.code,
                                   tool_last.doc)) = "RecursionError"
    /\ tool_last.name \notin DOMAIN dynamic_tool_registry
    /\ dynamic_files = {}

\* C28: one tool call sends at most one create request and at most one
\* execute request; a step puts at most one request to a kernel in flight, and
\* only the step in which execute_code takes up a call does; a step that
\* ends a waiting call with an error leaves no request in flight; a create
\* step changes at most one container.
C28_NoRetries ==
    /\ [](client.creates <= 1 /\ client.executes <= 1)
    /\ [][/\ Cardinality(inflight' \ inflight) <= 1
          /\ inflight' \ inflight # {} => ExecuteArrives
          /\ (inflight # {} /\ last'.op = "execute" /\ last'.status >= 400) =>
                inflight' = {}
          /\ last'.op = "create" =>
                Cardinality({c \in Ids : containers'[c] # containers[c]}) <= 1]_vars

\* C28 witness: execute_code of the tools created a sandbox, posted the code
\* once, got an error and returned it.
C28_Witness ==
    /\ client.tool = "execute_code"
    /\ client.pc = "idle"
    /\ client.creates = 1
    /\ client.executes = 1
    /\ client.result = <<"stderr: ", "HTTPError">>

C30_TaskToolsContract ==
    [][LET before == list_tasks(tasks, task_last'.session_id)
           after == list_tasks(tasks', task_last'.session_id)
       IN  /\ task_last'.op = "create_task" =>
                /\ Len(after) = Len(before) + 1
                /\ \E i \in 1..Len(after) :
                        /\ after[i].id = task_last'.task_id
                        /\ after[i].title = task_last'.title
                        /\ after[i].status = "pending"
                /\ \A i \in 1..Len(before) : \E j \in 1..Len(after) : after[j] = before[i]
           /\ (task_last'.op = "update_task_status" /\ task_last'.result = "updated") =>
                /\ Len(after) = Len(before)
                /\ \A i \in 1..Len(before) :
                        IF before[i].id = task_last'.task_id
                        THEN after[i] = [before[i] EXCEPT !.status = task_last'.status]
                        ELSE after[i] = before[i]]_vars

\* C31: get_conversations returns exactly the entries appended for the
\* session, each with its content, cut to the `limit` most recent ones and
\* listed oldest first.
C31_ConversationsOfSession ==
    conv_last.op = "get_conversations" =>
        LET ids == SessionRows(conv_last.session_id)
            appended == [k \in 1..Cardinality(ids) |->
                            CHOOSE i \in ids : Cardinality({j \in ids : j < i}) = k - 1]
            n == Len(appended)
            kept == IF n < conv_last.limit THEN n ELSE conv_last.limit
        IN  conv_last.result = [k \in 1..kept |-> ConvDict(appended[n - kept + k])]

\* C32: of the delete calls that run side by side on one registered id, the
\* one that removes the entry answers deleted or with the runtime's error, and
\* every other one answers not found.
C32_ConcurrentDeleteOnce ==
    thread_last.op = "delete" =>
        IF thread_last.removed
        THEN thread_last.status \in {200, 500}
                /\ thread_last.body \in {"deleted"} \cup CleanupOutcomes
        ELSE thread_last.status = 404

\* C33: a list call that has polled an entry while entries of other
\* sandboxes are inserted or removed ends with a result.
C33_ListSurvivesChanges ==
    (thread_last.op = "list" /\ thread_last.visited # {}) => thread_last.status = 200

C35_RegistryMatchesFiles ==
    \A name \in ToolNames :
        name \in DOMAIN dynamic_tool_registry <=> \E f \in dynamic_files : f.path[1] = name

\* C36: a request that is rejected for the rate limit leaves the start of
\* the client's window where it was, and a request of a client whose window
\* started more than RATE_LIMIT_WINDOW seconds ago is let through, however
\* many requests of the client were rejected in that window.
C36_NoPermanentLockout ==
    [][(rate_limit' # rate_limit /\ rate_last'.client_id \in DOMAIN rate_limit) =>
        LET c == rate_last'.client_id IN
        /\ ~rate_last'.forwarded =>
                rate_limit'[c].window_start = rate_limit[c].window_start
        /\ now - rate_limit[c].window_start > RATE_LIMIT_WINDOW => rate_last'.forwarded]_vars

\* C36 witness: a client that was over its budget in the window that began
\* at 0 and went on sending at 60 has a request let through at 61.
C36_Witness ==
    /\ now = 61
    /\ rate_last.forwarded
    /\ rate_last.count > RATE_LIMIT_MAX
    /\ rate_limit[rate_last.client_id].window_start = 61

\* C37: over the execute_code calls of one session, overlapping ones
\* included, at most one sandbox is created for the session and every
\* execution is sent to that sandbox.
C37_OneSandboxPerSession ==
    /\ Cardinality({r \in posted : r.op = "create"}) <= 1
    /\ \A r \in posted : r.op = "execute" =>
            [op |-> "create", id |-> r.id] \in posted

\* C38: no task operation of one session changes the title, status or
\* metadata of a task of another session; update_task_status on a task id
\* of another session answers not found and changes nothing.
C38_TasksIsolatedBySession ==
    [][/\ \A t \in DOMAIN tasks :
            tasks[t].session_id # task_last'.session_id =>
                /\ t \in DOMAIN tasks'
                /\ tasks'[t] = tasks[t]
       /\ (/\ task_last'.op = "update_task_status"
           /\ task_last'.task_id \in DOMAIN tasks
           /\ tasks[task_last'.task_id].session_id # task_last'.session_id) =>
                /\ task_last'.result = "not found"
                /\ tasks' = tasks]_vars

====
